---- MODULE Spec2Model ----
(***************************************************************************)
(* NMS-Helper: the technology layout planner (lib/planner.ts, driven by    *)
(* the planner actions of store/useAppStore.ts) and the refiner recipe     *)
(* planner with its plan cache (lib/refinerPlanner.ts).                    *)
(*                                                                         *)
(* Two state machines share this module.  SpecPlanner is the planner       *)
(* store: the grid, the bench and one suggestBestArrangement call at a     *)
(* time, its hill-climb loop taken one iteration per step with the random  *)
(* draws as nondeterministic choices.  Spec is a session of planRefiner    *)
(* and clearPlannerCache calls against the module-level cache, with the    *)
(* results the caller drops.  SpecAlias is a caller that keeps the results *)
(* of repeated planRefiner calls and writes to the first of them.          *)
(***************************************************************************)
EXTENDS Integers, Sequences, FiniteSets, TLC

(***************************************************************************)
(* Bounds of the model.                                                    *)
(***************************************************************************)
\* modules placed in the grid plus modules on the bench
MaxPool == 3
\* slots the user has marked supercharged
MaxSupercharged == 1
\* the iterations argument of suggestBestArrangement ranges over 0..MaxIter
MaxIter == 2
\* target.quantity ranges over 1..MaxQty
MaxQty == 2
\* config.maxDepth, when given, ranges over 0..MaxDepth
MaxDepth == 3
\* distinct cache keys requested between two clearPlannerCache calls
MaxKeys == 1
\* results of planRefiner calls a caller holds at a time
MaxHeld == 2
\* writes a caller makes to a result it holds
MaxWrites == 1
\* length of the recipe list passed to buildCanonicalIndex
MaxRecipes == 4
\* times the index is built from one recipe list
MaxBuilds == 2
\* the largest maxDepth passed to suggestRefinerChains
MaxChainDepth == 3
\* the largest maxSuggestions passed to suggestRefinerChains
MaxSuggestions == 3
\* distinct cache keys requested around a failing planRefiner call
MaxFailKeys == 2
\* store actions that persist, in one session
MaxActions == 2
\* patches applied to the recipe the admin form edits
MaxPatches == 1

(***************************************************************************)
(* Generic helpers.                                                        *)
(***************************************************************************)
Max(a, b) == IF a >= b THEN a ELSE b

Min(a, b) == IF a < b THEN a ELSE b

Range(s) == {s[k] : k \in 1..Len(s)}

\* The sum of the first n elements of s.
RECURSIVE SumFirst(_, _)
SumFirst(s, n) == IF n = 0 THEN 0 ELSE s[n] + SumFirst(s, n - 1)

SumSeq(s) == SumFirst(s, Len(s))

\* The least element of the set of positions S, or d when S is empty.
FirstOr(S, d) == IF S = {} THEN d ELSE CHOOSE k \in S : \A j \in S : k <= j

\* seq with x put at position pos
InsertAt(seq, x, pos) == SubSeq(seq, 1, pos - 1) \o <<x>> \o SubSeq(seq, pos, Len(seq))

(***************************************************************************)
(* Planner data.                                                           *)
(***************************************************************************)
\* slot.moduleId === undefined
NoModule == "none"

\* The module map of the planner scoring test.  superchargeMultiplier is
\* kept in halves (mult2 = 2 * superchargeMultiplier) so that the 1.5 of
\* beta stays an integer; scores are computed in halves and rounded as
\* Math.round does.
ModuleMap ==
  [ alpha |-> [baseValue |-> 100, mult2 |-> 4, adjacency |-> [beta |-> 75, gamma |-> 10]],
    beta  |-> [baseValue |-> 80,  mult2 |-> 3, adjacency |-> [alpha |-> 50, delta |-> 15]],
    gamma |-> [baseValue |-> 40,  mult2 |-> 2, adjacency |-> [alpha |-> 10, delta |-> 20]],
    delta |-> [baseValue |-> 30,  mult2 |-> 2, adjacency |-> [beta |-> 15, gamma |-> 25]] ]

\* The module maps passed to scorePlannerGrid: the map of the test, and
\* that map after beta and delta were taken out of the data.
ModuleMaps ==
  << ModuleMap, [id \in {"alpha", "gamma"} |-> ModuleMap[id]] >>

\* The module ids written into the slots of a grid that is scored.
ScoreIds == {"alpha", "beta", "gamma", "delta"}

\* The sizes of the grids that are scored.
ScoreDims == {<<1, 1>>, <<2, 2>>}

\* modules.get(id) !== undefined
KnownModule(id) == id \in DOMAIN ModuleMap

\* The module ids the user places or benches.
PoolIds == {"alpha", "beta", "gamma"}

\* The grid sizes the user selects (the default grid of the store is 4 x 6;
\* the model starts from one of these smaller grids).
GridDims == {<<1, 2>>, <<2, 2>>}

EmptySlot(index) == [id |-> index, type |-> "tech", supercharged |-> FALSE, moduleId |-> NoModule]

createEmptyPlanner(rows, cols) ==
  [rows |-> rows, cols |-> cols, slots |-> [k \in 1..(rows * cols) |-> EmptySlot(k - 1)]]

\* grid.slots[i] is undefined past the end of the old array
resizePlannerGrid(grid, rows, cols) ==
  [rows |-> rows, cols |-> cols,
   slots |-> [k \in 1..(rows * cols) |->
                IF k <= Len(grid.slots)
                  THEN [grid.slots[k] EXCEPT !.id = k - 1]
                  ELSE EmptySlot(k - 1)]]

\* The orthogonal neighbours of 0-based slot index, bounds-checked.
Neighbours(index, rows, cols) ==
  LET row == index \div cols
      col == index % cols
  IN  { nr * cols + nc : <<nr, nc>> \in
          { p \in {<<row - 1, col>>, <<row + 1, col>>, <<row, col - 1>>, <<row, col + 1>>} :
              p[1] >= 0 /\ p[1] < rows /\ p[2] >= 0 /\ p[2] < cols } }

AdjacencyWeight(module, neighbourId) ==
  IF neighbourId \in DOMAIN module.adjacency THEN module.adjacency[neighbourId] ELSE 0

\* A contribution whose multiplier applies to the base value only.
SlotScoreBaseOnly2(grid, index, modules) ==
  LET slot == grid.slots[index + 1]
  IN  IF slot.moduleId = NoModule \/ slot.moduleId \notin DOMAIN modules THEN 0
      ELSE 2 * SumSeq([k \in 1..Len(grid.slots) |->
                 IF (k - 1) \in Neighbours(index, grid.rows, grid.cols)
                      /\ grid.slots[k].moduleId # NoModule
                   THEN AdjacencyWeight(modules[slot.moduleId], grid.slots[k].moduleId)
                   ELSE 0])
           + modules[slot.moduleId].baseValue
               * (IF slot.supercharged THEN modules[slot.moduleId].mult2 ELSE 2)

\* The contribution of one slot, in halves.
SlotScore2(grid, index, modules) ==
  LET slot == grid.slots[index + 1]
  IN  IF slot.moduleId = NoModule \/ slot.moduleId \notin DOMAIN modules THEN 0
      ELSE
        LET module == modules[slot.moduleId]
            occupied == { n \in Neighbours(index, grid.rows, grid.cols) :
                            grid.slots[n + 1].moduleId # NoModule }
            adj == SumSeq([k \in 1..Len(grid.slots) |->
                      IF (k - 1) \in occupied
                        THEN AdjacencyWeight(module, grid.slots[k].moduleId)
                        ELSE 0])
            moduleScore == module.baseValue + adj
        IN  IF slot.supercharged THEN moduleScore * module.mult2 ELSE moduleScore * 2

\* Math.round of a non-negative number given in halves
RoundHalves(h) == (h + 1) \div 2

scorePlannerGrid(grid, modules) ==
  RoundHalves(SumSeq([k \in 1..Len(grid.slots) |-> SlotScore2(grid, k - 1, modules)]))

\* (modA?.baseValue ?? 0) * (modA?.superchargeMultiplier ?? 1), in halves
GreedyValue2(id) ==
  IF KnownModule(id) THEN ModuleMap[id].baseValue * ModuleMap[id].mult2 ELSE 0

\* Array.prototype.sort is stable: an id goes after every id of at least
\* its value.
InsertByValue(sorted, id) ==
  InsertAt(sorted, id,
           FirstOr({ k \in 1..Len(sorted) : GreedyValue2(sorted[k]) < GreedyValue2(id) },
                   Len(sorted) + 1))

RECURSIVE SortModules(_, _)
SortModules(sorted, rest) ==
  IF rest = <<>> THEN sorted
  ELSE SortModules(InsertByValue(sorted, Head(rest)), Tail(rest))

\* The slot positions in their original order, supercharged or not.
OrderedSlotsByIndex(slots) == [k \in 1..Len(slots) |-> k]

\* The 1-based slot positions, supercharged slots first, each group in its
\* original order (the stable sort on 1.5 against 1).
OrderedSlots(slots) ==
  SelectSeq([k \in 1..Len(slots) |-> k], LAMBDA k : slots[k].supercharged)
    \o SelectSeq([k \in 1..Len(slots) |-> k], LAMBDA k : ~slots[k].supercharged)

greedyPlacement(grid, moduleIds) ==
  LET sortedModules == SortModules(<<>>, moduleIds)
      orderedSlots == OrderedSlots(grid.slots)
      Rank(k) == CHOOSE r \in 1..Len(orderedSlots) : orderedSlots[r] = k
  IN  [grid EXCEPT !.slots =
         [k \in 1..Len(grid.slots) |->
            [grid.slots[k] EXCEPT !.moduleId =
               IF Rank(k) <= Len(sortedModules) THEN sortedModules[Rank(k)] ELSE NoModule]]]

\* planner.grid.slots.map(slot => slot.moduleId).filter(Boolean)
CurrentModules(grid) ==
  SelectSeq([k \in 1..Len(grid.slots) |-> grid.slots[k].moduleId], LAMBDA id : id # NoModule)

\* The 1-based positions of the slots of grid that hold a module.
ModuleSlots(grid) ==
  SelectSeq([k \in 1..Len(grid.slots) |-> k], LAMBDA k : grid.slots[k].moduleId # NoModule)

SwapModules(grid, a, b) ==
  [grid EXCEPT !.slots[a].moduleId = grid.slots[b].moduleId,
               !.slots[b].moduleId = grid.slots[a].moduleId]

\* modulesToPlace.filter(id => !assignedModuleIds.has(id))
RemainingBench(modulesToPlace, grid) ==
  LET assignedModuleIds == Range(CurrentModules(grid))
  IN  SelectSeq(modulesToPlace, LAMBDA id : id \notin assignedModuleIds)

\* The number of slots of grid that hold a module.
Placed(grid) == Len(CurrentModules(grid))

PoolSize(p) == Placed(p.grid) + Len(p.benchModules)

Supercharged(grid) == Cardinality({k \in 1..Len(grid.slots) : grid.slots[k].supercharged})

(***************************************************************************)
(* Refiner planner data.                                                   *)
(***************************************************************************)
\* target.recipeId === undefined
NoRecipeId == ""

\* recipe.name === undefined
NoName == ""

\* node.recipe === undefined
NoRecipe == 0

\* config.maxDepth === undefined
NoDepth == -1

\* String.prototype.localeCompare on the names and ids of the catalog: the
\* position in this collation order.
Collation == <<"Alt", "base", "basealt", "basestep", "Mid", "midself", "midstep", "Ore", "oreloop",
               "Self", "target", "Target", "targetalt">>

StrRank(s) == CHOOSE k \in 1..Len(Collation) : Collation[k] = s

localeCompare(a, b) == StrRank(a) - StrRank(b)

\* The CanonicalRecipe objects of the session; a recipe is referred to by
\* its position here, which stands for the identity of the object.  1 to 5
\* are the shipped dataset, 6 is recipe 1 after an admin override (same id,
\* new quantity, time and inputs; a new object), 7 is a recipe that needs
\* its own output, 8 is a second recipe for base, 9 is recipe 5 with its
\* inputs listed in the other order.  The field locked of each object is the variable locked.
Recipes ==
  << [id |-> "target", name |-> "Target", output |-> "target", quantity |-> 2, time_s |-> 30,
      inputs |-> <<[item |-> "mid", qty |-> 1], [item |-> "ore", qty |-> 2]>>],
     [id |-> "midstep", name |-> "Mid", output |-> "mid", quantity |-> 1, time_s |-> 20,
      inputs |-> <<[item |-> "base", qty |-> 1], [item |-> "ore", qty |-> 1]>>],
     [id |-> "basestep", name |-> NoName, output |-> "base", quantity |-> 1, time_s |-> 10,
      inputs |-> <<[item |-> "ore", qty |-> 2]>>],
     [id |-> "oreloop", name |-> "Ore", output |-> "ore", quantity |-> 3, time_s |-> 5,
      inputs |-> <<[item |-> "target", qty |-> 1]>>],
     [id |-> "targetalt", name |-> "Alt", output |-> "target", quantity |-> 1, time_s |-> 8,
      inputs |-> <<[item |-> "mid", qty |-> 1], [item |-> "mid", qty |-> 2]>>],
     [id |-> "target", name |-> "Target", output |-> "target", quantity |-> 1, time_s |-> 40,
      inputs |-> <<[item |-> "base", qty |-> 3]>>],
     [id |-> "midself", name |-> "Self", output |-> "mid", quantity |-> 2, time_s |-> 4,
      inputs |-> <<[item |-> "mid", qty |-> 1]>>],
     [id |-> "basealt", name |-> "Alt", output |-> "base", quantity |-> 1, time_s |-> 10,
      inputs |-> <<[item |-> "mid", qty |-> 1]>>],
     [id |-> "targetalt", name |-> "Alt", output |-> "target", quantity |-> 1, time_s |-> 8,
      inputs |-> <<[item |-> "mid", qty |-> 2], [item |-> "mid", qty |-> 1]>>],
     [id |-> "basefree", name |-> "Free", output |-> "base", quantity |-> 2, time_s |-> 10,
      inputs |-> <<>>] >>

\* The recipe lists an index is built from: the shipped dataset, the
\* dataset after the override of recipe "target", a reduced dataset, and
\* a dataset with a recipe that takes no inputs.
Catalogs == << <<1, 2, 3, 4, 5>>, <<6, 2, 3, 4, 5>>, <<2, 7>>, <<2, 10>> >>

\* The item to category maps passed as config.categories.
CategoryMaps ==
  << [x \in {} |-> ""],
     [target |-> "Metal", mid |-> "Metal", base |-> "Metal", ore |-> "Gas"],
     [mid |-> "Metal", ore |-> "Gas"] >>

\* Math.ceil(a / b) for a >= 0, b > 0
Ceil(a, b) == (a + b - 1) \div b

(***************************************************************************)
(* State.                                                                  *)
(***************************************************************************)
VARIABLES
  planner,        \* the store's PlannerState: platform, grid, benchModules
  pc,             \* position of the suggestBestArrangement call: idle, loop, done
  iterations,     \* its iterations argument
  i,              \* its loop counter
  modulesToPlace, \* its pool: placed modules, then the bench
  moduleSlots,    \* the occupied slots of the greedy seed
  bestGrid,       \* the best grid so far
  bestScore,      \* its score
  ret,            \* the PlannerState it returned
  locked,         \* the field locked of each CanonicalRecipe object
  cache,          \* refinerPlanner's module-level cache: key -> PlannerResult
  last,           \* the last cache operation: its arguments and what it returned
  requested,      \* the cache keys requested since the last clear
  purged,         \* whether a clearPlannerCache call has removed an entry
  held,           \* results of earlier planRefiner calls the caller still holds
  writes,         \* how many writes the caller has made to a held result
  catalog,        \* the recipe list last passed to buildCanonicalIndex
  built,          \* the index it returned
  builds,         \* how many times the index was built from that list
  scored,         \* the last scorePlannerGrid call: module map, grid and score
  drawn,          \* firstIdx and secondIdx of the iteration in progress
  heap,           \* the objects of the caller and of the planner functions, by address
  arg,            \* the address of the PlannerState passed to them
  snapshot,       \* the value of that PlannerState when the call was made
  run,            \* the call on arg: position, locals and result
  admin,          \* the admin override form of the Refiner page and the recipe it edits
  chains,         \* the suggestRefinerChains call: its arguments and what it returned
  persist         \* hydrate and the saves: persistent storage, memory and pending operations

plannerVars == <<planner, pc, iterations, i, modulesToPlace, moduleSlots, bestGrid, bestScore, ret>>

refinerVars == <<locked, cache, last, requested, purged, held, writes>>

indexVars == <<catalog, built, builds>>

scoreVars == <<scored>>

climbVars == <<drawn>>

\* The variables outside the planner store, the plan cache, the index and
\* the score.
frameVars == <<heap, arg, snapshot, run>>

adminVars == <<admin>>

chainVars == <<chains>>

persistVars == <<persist>>

restVars == <<climbVars, frameVars, adminVars, chainVars, persistVars>>

vars == <<plannerVars, refinerVars, indexVars, scoreVars, restVars>>

NoGrid == [rows |-> 0, cols |-> 0, slots |-> <<>>]

NoPlanner == [platform |-> "starship", grid |-> NoGrid, benchModules |-> <<>>]

IdleRun ==
  /\ pc' = "idle"
  /\ iterations' = 0
  /\ i' = 0
  /\ modulesToPlace' = <<>>
  /\ moduleSlots' = <<>>
  /\ bestGrid' = NoGrid
  /\ bestScore' = 0
  /\ ret' = NoPlanner

\* The size of the grid of defaultPlannerState, scaled down from 4 x 6.
DefaultDims == <<2, 2>>

defaultPlannerState ==
  [platform |-> "starship", grid |-> createEmptyPlanner(DefaultDims[1], DefaultDims[2]),
   benchModules |-> <<>>]

InitPlanner(dims) ==
  /\ planner = [platform |-> "starship", grid |-> createEmptyPlanner(dims[1], dims[2]),
                benchModules |-> <<>>]
  /\ pc = "idle"
  /\ iterations = 0
  /\ i = 0
  /\ modulesToPlace = <<>>
  /\ moduleSlots = <<>>
  /\ bestGrid = NoGrid
  /\ bestScore = 0
  /\ ret = NoPlanner

(***************************************************************************)
(* The planner actions of the store.                                       *)
(***************************************************************************)
setPlannerGridSize(rows, cols) ==
  /\ pc = "idle"
  /\ planner' = [planner EXCEPT !.grid = resizePlannerGrid(planner.grid, rows, cols)]
  /\ UNCHANGED <<pc, iterations, i, modulesToPlace, moduleSlots, bestGrid, bestScore, ret, refinerVars, indexVars, scoreVars, restVars>>

\* updatePlannerSlot(index, { supercharged })
updatePlannerSlot(index, flag) ==
  /\ pc = "idle"
  /\ index \in 1..Len(planner.grid.slots)
  /\ LET next == [planner EXCEPT !.grid.slots[index].supercharged = flag]
     IN  /\ Supercharged(next.grid) <= MaxSupercharged
         /\ planner' = next
  /\ UNCHANGED <<pc, iterations, i, modulesToPlace, moduleSlots, bestGrid, bestScore, ret, refinerVars, indexVars, scoreVars, restVars>>

placeModule(index, moduleId) ==
  /\ pc = "idle"
  /\ index \in 1..Len(planner.grid.slots)
  /\ LET next == [planner EXCEPT !.grid.slots[index].moduleId = moduleId]
     IN  /\ PoolSize(next) <= MaxPool
         /\ planner' = next
  /\ UNCHANGED <<pc, iterations, i, modulesToPlace, moduleSlots, bestGrid, bestScore, ret, refinerVars, indexVars, scoreVars, restVars>>

pushBenchModule(moduleId) ==
  /\ pc = "idle"
  /\ PoolSize(planner) < MaxPool
  /\ planner' = [planner EXCEPT !.benchModules = Append(@, moduleId)]
  /\ UNCHANGED <<pc, iterations, i, modulesToPlace, moduleSlots, bestGrid, bestScore, ret, refinerVars, indexVars, scoreVars, restVars>>

removeBenchModule(moduleId) ==
  /\ pc = "idle"
  /\ moduleId \in Range(planner.benchModules)
  /\ planner' = [planner EXCEPT !.benchModules = SelectSeq(@, LAMBDA id : id # moduleId)]
  /\ UNCHANGED <<pc, iterations, i, modulesToPlace, moduleSlots, bestGrid, bestScore, ret, refinerVars, indexVars, scoreVars, restVars>>

(***************************************************************************)
(* suggestBestArrangement(planner, modules, iterations), called by the     *)
(* store's suggestPlanner.                                                 *)
(***************************************************************************)
\* Entry: the pool, the greedy seed and its score.
SuggestCall(n) ==
  /\ pc = "idle"
  /\ LET pool == CurrentModules(planner.grid) \o planner.benchModules
         baseGrid == greedyPlacement(planner.grid, pool)
     IN  /\ modulesToPlace' = pool
         /\ bestGrid' = baseGrid
         /\ bestScore' = scorePlannerGrid(baseGrid, ModuleMap)
         /\ moduleSlots' = ModuleSlots(baseGrid)
  /\ iterations' = n
  /\ i' = 0
  /\ pc' = "loop"
  /\ UNCHANGED <<planner, ret, refinerVars, indexVars, scoreVars, restVars>>

\* A loop without the early exit.
NoEarlyBreak(n) == FALSE

\* if (moduleSlots.length < 2) break
EarlyBreak(n) == n < 2

\* A comparison that also adopts a candidate of equal score.
AdoptNotLower(candidateScore, best) == candidateScore >= best

\* if (candidateScore > bestScore) { bestGrid = nextGrid; bestScore = candidateScore }
Adopt(candidateScore, best) == candidateScore > best

\* One iteration: two distinct random positions of moduleSlots, the swap on
\* a clone of bestGrid, and the comparison.
ClimbStep(firstIdx, secondIdx) ==
  /\ pc = "loop"
  /\ i < iterations
  /\ ~EarlyBreak(Len(moduleSlots))
  /\ firstIdx \in 1..Len(moduleSlots)
  /\ secondIdx \in 1..Len(moduleSlots)
  /\ secondIdx # firstIdx
  /\ LET nextGrid == SwapModules(bestGrid, moduleSlots[firstIdx], moduleSlots[secondIdx])
         candidateScore == scorePlannerGrid(nextGrid, ModuleMap)
     IN  IF Adopt(candidateScore, bestScore)
           THEN bestGrid' = nextGrid /\ bestScore' = candidateScore
           ELSE UNCHANGED <<bestGrid, bestScore>>
  /\ i' = i + 1
  /\ UNCHANGED <<planner, pc, iterations, modulesToPlace, moduleSlots, ret, refinerVars, indexVars, scoreVars, restVars>>

\* Loop exit and the returned state.
SuggestReturn ==
  /\ pc = "loop"
  /\ i >= iterations \/ EarlyBreak(Len(moduleSlots))
  /\ ret' = [planner EXCEPT !.grid = bestGrid,
                            !.benchModules = RemainingBench(modulesToPlace, bestGrid)]
  /\ pc' = "done"
  /\ UNCHANGED <<planner, iterations, i, modulesToPlace, moduleSlots, bestGrid, bestScore, refinerVars, indexVars, scoreVars, restVars>>

clearPlannerModules ==
  /\ pc = "idle"
  /\ planner' = [planner EXCEPT !.grid.slots =
                   [k \in 1..Len(planner.grid.slots) |->
                      [planner.grid.slots[k] EXCEPT !.moduleId = NoModule]]]
  /\ UNCHANGED <<pc, iterations, i, modulesToPlace, moduleSlots, bestGrid, bestScore, ret, refinerVars, indexVars, scoreVars, restVars>>

resetPlanner ==
  /\ pc = "idle"
  /\ planner' = defaultPlannerState
  /\ UNCHANGED <<pc, iterations, i, modulesToPlace, moduleSlots, bestGrid, bestScore, ret, refinerVars, indexVars, scoreVars, restVars>>

\* suggestPlanner: return { planner: suggested }
SuggestCommit ==
  /\ pc = "done"
  /\ planner' = ret
  /\ IdleRun
  /\ UNCHANGED <<refinerVars, indexVars, scoreVars, restVars>>

NextPlanner ==
  \/ \E d \in GridDims : setPlannerGridSize(d[1], d[2])
  \/ \E k \in 1..4, f \in BOOLEAN : updatePlannerSlot(k, f)
  \/ \E k \in 1..4, m \in PoolIds \cup {NoModule} : placeModule(k, m)
  \/ \E m \in PoolIds : pushBenchModule(m)
  \/ \E m \in PoolIds : removeBenchModule(m)
  \/ \E n \in 0..MaxIter : SuggestCall(n)
  \/ \E a \in 1..4, b \in 1..4 : ClimbStep(a, b)
  \/ SuggestReturn
  \/ SuggestCommit
  \/ clearPlannerModules
  \/ resetPlanner

(***************************************************************************)
(* The refiner planner: index construction and recipe selection.           *)
(***************************************************************************)
\* a and b are recipe references
\* A comparator that looks at the time before the number of inputs.
recipeSortByTime(a, b) ==
  IF Recipes[a].time_s # Recipes[b].time_s
    THEN Recipes[a].time_s - Recipes[b].time_s
    ELSE Len(Recipes[a].inputs) - Len(Recipes[b].inputs)

recipeSort(a, b) ==
  IF Len(Recipes[a].inputs) # Len(Recipes[b].inputs)
    THEN Len(Recipes[a].inputs) - Len(Recipes[b].inputs)
  ELSE IF Recipes[a].time_s # Recipes[b].time_s
    THEN Recipes[a].time_s - Recipes[b].time_s
  ELSE localeCompare(IF Recipes[a].name # NoName THEN Recipes[a].name ELSE Recipes[a].output,
                     IF Recipes[b].name # NoName THEN Recipes[b].name ELSE Recipes[b].output)

\* One insertion of the stable sort: r goes before the first element it is
\* strictly less than.
InsertRecipe(sorted, r) ==
  InsertAt(sorted, r,
           FirstOr({ k \in 1..Len(sorted) : recipeSort(r, sorted[k]) < 0 }, Len(sorted) + 1))

RECURSIVE SortRecipes(_, _)
\* recipes.sort(recipeSort), a stable sort
SortRecipes(sorted, rest) ==
  IF rest = <<>> THEN sorted
  ELSE SortRecipes(InsertRecipe(sorted, Head(rest)), Tail(rest))

RECURSIVE IndexRecipes(_, _)
\* recipes.forEach: push onto the output's list, sort the list, set it
IndexRecipes(index, rest) ==
  IF rest = <<>> THEN index
  ELSE IndexRecipes(
         (Recipes[Head(rest)].output :>
            SortRecipes(<<>>, Append(IF Recipes[Head(rest)].output \in DOMAIN index
                                       THEN index[Recipes[Head(rest)].output] ELSE <<>>,
                                     Head(rest))))
           @@ index,
         Tail(rest))

buildCanonicalIndex(recipes) == IndexRecipes([x \in {} |-> <<>>], recipes)

\* The indexes passed as config.canonicalIndex: one per catalog; the third
\* also maps "target" to an empty candidate list.
Indexes ==
  << buildCanonicalIndex(Catalogs[1]),
     buildCanonicalIndex(Catalogs[2]),
     ("target" :> <<>>) @@ buildCanonicalIndex(Catalogs[3]),
     buildCanonicalIndex(Catalogs[4]) >>

\* The recipe chosen, or NoRecipe where the code throws Error.
selectRecipe(recipes, recipeId) ==
  IF recipeId # NoRecipeId
    THEN Append(recipes, NoRecipe)[
           FirstOr({ k \in 1..Len(recipes) : Recipes[recipes[k]].id = recipeId },
                   Len(recipes) + 1)]
    ELSE SortRecipes(<<>>, recipes)[1]

collectCategories(recipe, categories) ==
  { categories[Recipes[recipe].inputs[k].item] :
      k \in { j \in 1..Len(Recipes[recipe].inputs) : Recipes[recipe].inputs[j].item \in DOMAIN categories } }

\* A category guard that lets every recipe through.
AllowAnyRecipe(recipe, allowedCategories, categories) == TRUE

shouldAllowRecipe(recipe, allowedCategories, categories) ==
  \/ allowedCategories = {}
  \/ \A k \in 1..Len(Recipes[recipe].inputs) :
       \/ Recipes[recipe].inputs[k].item \notin DOMAIN categories
       \/ categories[Recipes[recipe].inputs[k].item] \in allowedCategories

(***************************************************************************)
(* The plan tree.                                                          *)
(***************************************************************************)
createBaseNode(itemId, qty, depth) ==
  [itemId |-> itemId, desiredQty |-> qty, actualQty |-> qty, runs |-> 0, timeSeconds |-> 0,
   depth |-> depth, recipe |-> NoRecipe, children |-> <<>>]

\* A depth guard that lets one more level through.
DepthGuardLate(depth, maxDepth) == depth > maxDepth + 1

\* if (depth > maxDepth) return createBaseNode(...)
DepthGuard(depth, maxDepth) == depth > maxDepth

\* A cycle guard that never stops the expansion.
NoCycleGuard(itemId, visited) == FALSE

\* if (visited.has(itemId)) return createBaseNode(...)
CycleGuard(itemId, visited) == itemId \in visited

\* options.filter(candidate => shouldAllowRecipe(candidate, allowedCategories, categories))
Viable(options, allowedCategories, categories) ==
  SelectSeq(options, LAMBDA c : shouldAllowRecipe(c, allowedCategories, categories))

RECURSIVE buildRecipeNode(_, _, _, _, _, _, _, _)
RECURSIVE buildNodeForItem(_, _, _, _, _, _, _, _)
RECURSIVE RecipeNode(_, _, _, _, _, _, _, _, _)

\* A run count that rounds the quotient down.
RunsFloor(desiredQty, quantity) == Max(1, desiredQty \div quantity)

\* Math.max(1, Math.ceil(desiredQty / recipe.quantity))
Runs(desiredQty, quantity) == Max(1, Ceil(desiredQty, quantity))

\* A child quantity scaled by the quantity desired of the parent.
ChildQtyByDesired(qty, runs, desiredQty) == qty * desiredQty

\* input.qty * runs
ChildQty(qty, runs, desiredQty) == qty * runs

\* The node of a recipe application of the given run count.
RecipeNode(recipe, desiredQty, runs, depth, maxDepth, canonicalIndex, allowedCategories, categories, visited) ==
  [itemId |-> Recipes[recipe].output,
   desiredQty |-> desiredQty,
   actualQty |-> runs * Recipes[recipe].quantity,
   runs |-> runs,
   timeSeconds |-> Recipes[recipe].time_s * runs,
   depth |-> depth,
   recipe |-> recipe,
   children |-> [k \in 1..Len(Recipes[recipe].inputs) |->
                   buildNodeForItem(Recipes[recipe].inputs[k].item,
                                    ChildQty(Recipes[recipe].inputs[k].qty, runs, desiredQty),
                                    depth + 1, maxDepth, canonicalIndex, allowedCategories,
                                    categories, visited \cup {Recipes[recipe].output})]]

buildRecipeNode(recipe, desiredQty, depth, maxDepth, canonicalIndex, allowedCategories, categories, visited) ==
  RecipeNode(recipe, desiredQty, Runs(desiredQty, Recipes[recipe].quantity), depth, maxDepth,
             canonicalIndex, allowedCategories, categories, visited)

buildNodeForItem(itemId, quantity, depth, maxDepth, canonicalIndex, allowedCategories, categories, visited) ==
  IF DepthGuard(depth, maxDepth) THEN createBaseNode(itemId, quantity, depth)
  ELSE IF CycleGuard(itemId, visited) THEN createBaseNode(itemId, quantity, depth)
  ELSE IF itemId \notin DOMAIN canonicalIndex \/ canonicalIndex[itemId] = <<>>
    THEN createBaseNode(itemId, quantity, depth)
  ELSE IF Viable(canonicalIndex[itemId], allowedCategories, categories) = <<>>
    THEN createBaseNode(itemId, quantity, depth)
  ELSE buildRecipeNode(Viable(canonicalIndex[itemId], allowedCategories, categories)[1],
                       quantity, depth, maxDepth, canonicalIndex, allowedCategories,
                       categories, visited)

\* An accumulator that appends an entry for every leaf.
AccAppend(acc, itemId, qty) == Append(acc, [itemId |-> itemId, qty |-> qty])

\* acc.set(itemId, (acc.get(itemId) ?? 0) + qty) on a Map kept in insertion order
AccAdd(acc, itemId, qty) ==
  IF \E k \in 1..Len(acc) : acc[k].itemId = itemId
    THEN [k \in 1..Len(acc) |-> IF acc[k].itemId = itemId THEN [acc[k] EXCEPT !.qty = @ + qty] ELSE acc[k]]
    ELSE Append(acc, [itemId |-> itemId, qty |-> qty])

RECURSIVE collectBaseMaterials(_, _)
RECURSIVE BaseMaterialsOfChildren(_, _)

collectBaseMaterials(node, acc) ==
  IF node.recipe = NoRecipe \/ Len(node.children) = 0
    THEN AccAdd(acc, node.itemId, node.actualQty)
    ELSE BaseMaterialsOfChildren(node.children, acc)

\* node.children.forEach(child => collectBaseMaterials(child, acc))
BaseMaterialsOfChildren(children, acc) ==
  IF children = <<>> THEN acc
  ELSE BaseMaterialsOfChildren(Tail(children), collectBaseMaterials(Head(children), acc))

StepOf(node) ==
  [recipe |-> node.recipe, depth |-> node.depth, runs |-> node.runs,
   timeSeconds |-> node.timeSeconds, outputQty |-> node.actualQty,
   inputs |-> [k \in 1..Len(Recipes[node.recipe].inputs) |->
                 [itemId |-> Recipes[node.recipe].inputs[k].item,
                  qty |-> Recipes[node.recipe].inputs[k].qty * node.runs]]]

RECURSIVE collectSteps(_, _)
RECURSIVE StepsOfChildren(_, _)

collectSteps(node, steps) ==
  StepsOfChildren(node.children,
                  IF node.recipe # NoRecipe THEN Append(steps, StepOf(node)) ELSE steps)

\* node.children.forEach(child => collectSteps(child, steps))
StepsOfChildren(children, steps) ==
  IF children = <<>> THEN steps
  ELSE StepsOfChildren(Tail(children), collectSteps(Head(children), steps))

\* the comparator of steps.sort in buildResultFromNode
StepCompare(a, b) ==
  IF a.depth # b.depth THEN a.depth - b.depth
  ELSE localeCompare(Recipes[a.recipe].id, Recipes[b.recipe].id)

InsertStep(sorted, st) ==
  InsertAt(sorted, st,
           FirstOr({ k \in 1..Len(sorted) : StepCompare(st, sorted[k]) < 0 }, Len(sorted) + 1))

RECURSIVE SortSteps(_, _)
SortSteps(sorted, rest) ==
  IF rest = <<>> THEN sorted
  ELSE SortSteps(InsertStep(sorted, Head(rest)), Tail(rest))

\* A total that counts the time of the first step only.
TotalTimeOfRoot(steps) == IF steps = <<>> THEN 0 ELSE steps[1].timeSeconds

\* steps.reduce((sum, step) => sum + step.timeSeconds, 0)
TotalTime(steps) == SumSeq([k \in 1..Len(steps) |-> steps[k].timeSeconds])

\* The PlannerResult of a root node with its sorted steps and base materials.
ResultOf(node, mode, steps, baseMaterials) ==
  [mode |-> mode,
   targetQty |-> node.desiredQty,
   outputQty |-> node.actualQty,
   totalTimeSeconds |-> TotalTime(steps),
   steps |-> steps,
   baseMaterials |-> baseMaterials,
   recipeId |-> IF node.recipe # NoRecipe THEN Recipes[node.recipe].id ELSE ""]

buildResultFromNode(node, mode) ==
  ResultOf(node, mode, SortSteps(<<>>, collectSteps(node, <<>>)), collectBaseMaterials(node, <<>>))

\* The root node planStrict builds: depth 0 of maxDepth 0.
\* A strict root that expands its inputs as synthesis does by default.
StrictRootExpanding(recipe, quantity, canonicalIndex, categories) ==
  buildRecipeNode(recipe, quantity, 0, 2, canonicalIndex,
                  collectCategories(recipe, categories), categories, {})

StrictRoot(recipe, quantity, canonicalIndex, categories) ==
  buildRecipeNode(recipe, quantity, 0, 0, canonicalIndex,
                  collectCategories(recipe, categories), categories, {})

planStrict(recipe, quantity, canonicalIndex, categories) ==
  buildResultFromNode(StrictRoot(recipe, quantity, canonicalIndex, categories), "strict")

\* The root node planSynthesis builds.
SynthesisRoot(recipe, quantity, canonicalIndex, categories, maxDepth) ==
  buildRecipeNode(recipe, quantity, 0, maxDepth, canonicalIndex,
                  collectCategories(recipe, categories), categories, {})

planSynthesis(recipe, quantity, canonicalIndex, categories, maxDepth) ==
  buildResultFromNode(SynthesisRoot(recipe, quantity, canonicalIndex, categories, maxDepth),
                      "synthesis")

(***************************************************************************)
(* planRefiner and the plan cache.                                         *)
(***************************************************************************)
TargetItems == {"target", "mid", "base"}

Targets == [itemId : TargetItems, quantity : 1..MaxQty, recipeId : {NoRecipeId, "target"}]

\* index and categories name an element of Indexes and of CategoryMaps
Configs == [mode : {"strict", "synthesis"}, index : DOMAIN Catalogs,
            categories : DOMAIN CategoryMaps, maxDepth : {NoDepth} \cup (0..MaxDepth)]

NoResult ==
  [mode |-> "", targetQty |-> 0, outputQty |-> 0, totalTimeSeconds |-> 0, steps |-> <<>>,
   baseMaterials |-> <<>>, recipeId |-> ""]

Returned(result) == [kind |-> "ok", result |-> result]

\* kind is the name of the error thrown
Thrown(kind) == [kind |-> kind, result |-> NoResult]

\* config.maxDepth ?? (mode === 'synthesis' ? 2 : 0)
EffectiveMaxDepth(config) ==
  IF config.maxDepth # NoDepth THEN config.maxDepth
  ELSE IF config.mode = "synthesis" THEN 2 ELSE 0

\* `${mode}:${target.itemId}:${target.quantity}:${target.recipeId ?? 'auto'}:${maxDepth}`
CacheKey(target, config) ==
  <<config.mode, target.itemId, target.quantity,
    IF target.recipeId # NoRecipeId THEN target.recipeId ELSE "auto",
    EffectiveMaxDepth(config)>>

\* The arrays and their elements are copied; step.recipe stays a reference
\* to the same CanonicalRecipe object.
cloneResult(result) ==
  [result EXCEPT
     !.steps = [k \in 1..Len(result.steps) |->
                  [result.steps[k] EXCEPT
                     !.inputs = [j \in 1..Len(result.steps[k].inputs) |-> result.steps[k].inputs[j]]]],
     !.baseMaterials = [k \in 1..Len(result.baseMaterials) |-> result.baseMaterials[k]]]

\* canonicalIndex.get(itemId), with undefined as the empty list
Options(canonicalIndex, itemId) ==
  IF itemId \in DOMAIN canonicalIndex THEN canonicalIndex[itemId] ELSE <<>>

\* The plan of the selected recipe, or Error when selectRecipe threw.
PlanSelected(recipe, quantity, mode, canonicalIndex, categories, maxDepth) ==
  IF recipe = NoRecipe THEN Thrown("Error")
  ELSE IF mode = "strict"
    THEN Returned(planStrict(recipe, quantity, canonicalIndex, categories))
    ELSE Returned(planSynthesis(recipe, quantity, canonicalIndex, categories, maxDepth))

\* planRefiner past the cache lookup, on the index and categories given.
PlanWith(target, mode, canonicalIndex, categories, maxDepth) ==
  IF Options(canonicalIndex, target.itemId) = <<>> THEN Thrown("MissingCanonicalRecipeError")
  ELSE PlanSelected(selectRecipe(Options(canonicalIndex, target.itemId), target.recipeId),
                    target.quantity, mode, canonicalIndex, categories, maxDepth)

\* planRefiner past the cache lookup: the result computed from the index
\* and categories of this call, or the error thrown.
PlanUncached(target, config) ==
  PlanWith(target, config.mode, Indexes[config.index], CategoryMaps[config.categories],
           EffectiveMaxDepth(config))

\* const cached = cache.get(cacheKey); if (cached) ...
CacheHit(key) == key \in DOMAIN cache

\* A call that stores under the key whatever came of the computation.
StoreAlways(key, computed) ==
  [hit |-> FALSE,
   outcome |-> IF computed.kind = "ok" THEN Returned(cloneResult(computed.result)) ELSE computed,
   cache |-> (key :> computed.result) @@ cache]

\* A computed result is stored and a clone returned; an error is thrown on.
StoreComputed(key, computed) ==
  IF computed.kind = "ok"
    THEN [hit |-> FALSE, outcome |-> Returned(cloneResult(computed.result)),
          cache |-> (key :> computed.result) @@ cache]
    ELSE [hit |-> FALSE, outcome |-> computed, cache |-> cache]

\* What a planRefiner call returns or throws, and the cache it leaves.
planRefiner(target, config) ==
  IF CacheHit(CacheKey(target, config))
    THEN [hit |-> TRUE, outcome |-> Returned(cloneResult(cache[CacheKey(target, config)])),
          cache |-> cache]
    ELSE StoreComputed(CacheKey(target, config), PlanUncached(target, config))

\* A clear that leaves the entries in place.
clearKeepsEntries == cache

\* cache.clear()
clearPlannerCache == [k \in {} |-> NoResult]

NoTarget == [itemId |-> "", quantity |-> 0, recipeId |-> NoRecipeId]

NoConfig == [mode |-> "", index |-> 0, categories |-> 0, maxDepth |-> NoDepth]

NoCall == [op |-> "none", target |-> NoTarget, config |-> NoConfig, hit |-> FALSE,
           outcome |-> Thrown(""), first |-> FALSE]

InitRefiner ==
  /\ locked = [r \in DOMAIN Recipes |-> TRUE]
  /\ cache = [k \in {} |-> NoResult]
  /\ last = NoCall
  /\ requested = {}
  /\ purged = FALSE
  /\ held = <<>>
  /\ writes = 0

\* One planRefiner(target, config) call.
CallDone(target, config, key, call) ==
  /\ cache' = call.cache
  /\ last' = [op |-> "plan", target |-> target, config |-> config, hit |-> call.hit,
              outcome |-> call.outcome, first |-> key \notin requested]
  /\ requested' = requested \cup {key}
  /\ UNCHANGED <<locked, purged>>

PlanCall(target, config) ==
  /\ CacheKey(target, config) \in requested \/ Cardinality(requested) < MaxKeys
  /\ CallDone(target, config, CacheKey(target, config), planRefiner(target, config))

ClearCall ==
  /\ cache' = clearPlannerCache
  /\ last' = [NoCall EXCEPT !.op = "clear"]
  /\ requested' = {}
  /\ purged' = (purged \/ DOMAIN cache # {})
  /\ UNCHANGED locked

\* A planRefiner call whose result the caller drops after looking at it.
Plan(target, config) ==
  /\ PlanCall(target, config)
  /\ UNCHANGED <<held, writes, plannerVars, indexVars, scoreVars, restVars>>

\* The calls around a failing call: two targets, one of them with a pinned
\* recipe that its candidates may lack, over the shipped index and the
\* index in which target has no candidates.
FailTargets == [itemId : {"target", "mid"}, quantity : {1}, recipeId : {NoRecipeId, "target"}]

FailConfigs == [mode : {"strict", "synthesis"}, index : {1, 3}, categories : {1}, maxDepth : {NoDepth}]

\* A planRefiner call among calls of up to MaxFailKeys distinct cache keys.
PlanAmong(target, config) ==
  /\ CacheKey(target, config) \in requested \/ Cardinality(requested) < MaxFailKeys
  /\ CallDone(target, config, CacheKey(target, config), planRefiner(target, config))
  /\ UNCHANGED <<held, writes, plannerVars, indexVars, scoreVars, restVars>>

Clear ==
  /\ ClearCall
  /\ UNCHANGED <<held, writes, plannerVars, indexVars, scoreVars, restVars>>

Next ==
  \/ \E target \in Targets, config \in Configs : Plan(target, config)
  \/ Clear

NextFail ==
  \/ \E target \in FailTargets, config \in FailConfigs : PlanAmong(target, config)
  \/ Clear

InitIndex ==
  /\ catalog = <<>>
  /\ built = buildCanonicalIndex(<<>>)
  /\ builds = 0

NoScore == [modules |-> 0, grid |-> NoGrid, score |-> 0]

InitScore == scored = NoScore

\* No iteration is in progress.
NoDraw == [firstIdx |-> 0, secondIdx |-> 0]

InitClimb == drawn = NoDraw

\* No object exists and no call was made.
NoFrameCall ==
  [pc |-> "idle", iterations |-> 0, i |-> 0, modulesToPlace |-> <<>>, moduleSlots |-> <<>>,
   bestGrid |-> 0, bestScore |-> 0, result |-> 0]

InitFrame ==
  /\ heap = <<>>
  /\ arg = 0
  /\ snapshot = NoPlanner
  /\ run = NoFrameCall

(***************************************************************************)
(* The admin override form of the Refiner page.                            *)
(***************************************************************************)
\* What is typed into the Quantity and Time fields: a numeral and a text
\* that is no numeral.
FieldTexts == {"3", "abc"}

\* event.target.value of <input type="number">: the text when it is a
\* numeral, the empty string otherwise.
InputValue(text) == IF text = "3" THEN text ELSE ""

\* Number(value) || fallback for the values an <input type="number"> gives:
\* Number("") is 0, and 0 is falsy.
NumberOr(value, fallback) == IF value = "3" THEN 3 ELSE fallback

\* Math.max(1, Math.round(Number(value) || 1))
SanitizeQuantity(value) == Max(1, NumberOr(value, 1))

\* Math.max(0, Math.round(Number(value) || 0))
SanitizeTime(value) == Max(0, NumberOr(value, 0))

\* The texts typed into the Inputs (JSON) field, each with what JSON.parse
\* gives for it: a syntax error, a value that is no array, or an array
\* whose entries are objects with or without item and qty; qty stands for
\* the number when typeofQty is "number".
NoField == "undefined"

InputTexts ==
  << [text |-> "[{\"item\":\"ore\",\"qty\":2}]", parsed |-> "array",
      entries |-> <<[item |-> "ore", qty |-> 2, typeofQty |-> "number"]>>],
     [text |-> "[]", parsed |-> "array", entries |-> <<>>],
     [text |-> "[{\"item\":\"ore\",\"qty\":2},{\"qty\":1}]", parsed |-> "array",
      entries |-> <<[item |-> "ore", qty |-> 2, typeofQty |-> "number"], [item |-> NoField, qty |-> 1, typeofQty |-> "number"]>>],
     [text |-> "[{\"item\":\"ore\",\"qty\":\"2\"}]", parsed |-> "array",
      entries |-> <<[item |-> "ore", qty |-> 0, typeofQty |-> "string"]>>],
     [text |-> "[{\"item\":\"ore\"}]", parsed |-> "array",
      entries |-> <<[item |-> "ore", qty |-> 0, typeofQty |-> "undefined"]>>],
     [text |-> "{\"item\":\"ore\",\"qty\":2}", parsed |-> "object", entries |-> <<>>],
     [text |-> "[{item: ore", parsed |-> "SyntaxError", entries |-> <<>>] >>

\* !entry.item || typeof entry.qty !== 'number'
EntryRejected(entry) == entry.item \in {NoField, ""} \/ entry.typeofQty # "number"

\* The error handleApplyAdmin catches before it reaches
\* applyCanonicalRecipePatch, or "" when none is thrown.
NoError == ""

ApplyError(inputs) ==
  IF inputs.parsed = "SyntaxError" THEN "Unexpected token"
  ELSE IF inputs.parsed # "array" THEN "Inputs must be an array of { item, qty } objects."
  ELSE IF \E k \in 1..Len(inputs.entries) : EntryRejected(inputs.entries[k])
    THEN "Each input requires an item id and numeric quantity."
  ELSE NoError

\* The recipe the form edits, as shipped.
ShippedRecipe == [quantity |-> 2, time_s |-> 30, inputs |-> <<[item |-> "mid", qty |-> 1]>>]

\* The form as the effect fills it from the recipe.
FormOf(recipe) ==
  [adminQuantity |-> recipe.quantity, adminTime |-> recipe.time_s, adminInputs |-> 0,
   typedQuantity |-> "", typedTime |-> "", typed |-> {}]

InitAdmin ==
  admin = [form |-> FormOf(ShippedRecipe), recipe |-> ShippedRecipe, before |-> ShippedRecipe,
           adminError |-> NoError, applied |-> FALSE, patches |-> 0, submitted |-> FormOf(ShippedRecipe)]

(***************************************************************************)
(* suggestRefinerChains of lib/refiner.ts.                                 *)
(***************************************************************************)
\* items: Map<string, Item>, the value of each item; "slag" is in no map.
ItemValue == [ore |-> 2, dust |-> 5, ingot |-> 30, gem |-> 100]

\* recipes: RefinerRecipe[]
RefinerRecipes ==
  << [id |-> "grind", inputs |-> <<[item |-> "ore", qty |-> 1]>>,
      output |-> [item |-> "dust", qty |-> 1], timeSeconds |-> 10],
     [id |-> "smelt", inputs |-> <<[item |-> "dust", qty |-> 2]>>,
      output |-> [item |-> "ingot", qty |-> 2], timeSeconds |-> 7],
     [id |-> "fuse", inputs |-> <<[item |-> "ore", qty |-> 1], [item |-> "dust", qty |-> 1]>>,
      output |-> [item |-> "gem", qty |-> 1], timeSeconds |-> 0],
     [id |-> "crush", inputs |-> <<[item |-> "ingot", qty |-> 1]>>,
      output |-> [item |-> "slag", qty |-> 3], timeSeconds |-> 5] >>

\* inputs: RefinerSlotState[], the slots of the refiner; NoItem is null.
NoItem == "null"

SlotLists ==
  { <<[itemId |-> "ore", qty |-> 2], [itemId |-> NoItem, qty |-> 1], [itemId |-> NoItem, qty |-> 1]>>,
    <<[itemId |-> "dust", qty |-> 1], [itemId |-> NoItem, qty |-> 1]>>,
    <<[itemId |-> "ore", qty |-> 1], [itemId |-> "dust", qty |-> 1]>>,
    <<[itemId |-> NoItem, qty |-> 1]>> }

\* inputs.filter((slot) => slot.itemId).map((slot) => slot.itemId)
baseItems(inputs) == {inputs[k].itemId : k \in {j \in DOMAIN inputs : inputs[j].itemId # NoItem}}

\* recipe.inputs.every((input) => state.available.has(input.item))
canCraftAnything(recipe, available) == TRUE

canCraft(recipe, available) ==
  \A k \in DOMAIN recipe.inputs : recipe.inputs[k].item \in available

\* (outputItem?.value ?? 0) * recipe.output.qty
addedValue(recipe) ==
  (IF recipe.output.item \in DOMAIN ItemValue THEN ItemValue[recipe.output.item] ELSE 0)
    * recipe.output.qty

\* Math.round(valuePerHour * 100) / 100, in hundredths, where valuePerHour
\* is state.time === 0 ? state.value : (state.value / state.time) * 3600.
valuePerHour(value, time) ==
  IF time = 0 THEN value * 100 ELSE (2 * value * 360000 + time) \div (2 * time)

\* recipes.forEach: the states pushed for the recipes from the k-th on.
RECURSIVE Pushed(_, _)
Pushed(state, k) ==
  IF k > Len(RefinerRecipes) THEN <<>>
  ELSE IF ~canCraft(RefinerRecipes[k], state.available) THEN Pushed(state, k + 1)
  ELSE << [available |-> state.available \cup {RefinerRecipes[k].output.item},
           steps |-> Append(state.steps, k),
           time |-> state.time + RefinerRecipes[k].timeSeconds,
           value |-> state.value + addedValue(RefinerRecipes[k])] >>
       \o Pushed(state, k + 1)

\* results.sort((a, b) => b.valuePerHour - a.valuePerHour): the sort is
\* stable, so a result goes after every result of a higher valuePerHour
\* and after the earlier results of the same valuePerHour.
PlaceByValuePerHour(results, k) ==
  1 + Cardinality({j \in DOMAIN results :
                     \/ results[j].valuePerHour > results[k].valuePerHour
                     \/ results[j].valuePerHour = results[k].valuePerHour /\ j < k})

SortByValuePerHour(results) ==
  [p \in DOMAIN results |->
     results[CHOOSE k \in DOMAIN results : PlaceByValuePerHour(results, k) = p]]

\* .slice(0, maxSuggestions)
Slice(s, n) == SubSeq(s, 1, Min(n, Len(s)))

NoChains ==
  [pc |-> "idle", inputs |-> <<>>, maxDepth |-> 0, maxSuggestions |-> 0,
   queue |-> <<>>, results |-> <<>>, visited |-> {}, ret |-> <<>>, found |-> 0]

InitChains == chains = NoChains

(***************************************************************************)
(* hydrate, withPersist and the object stores of lib/persistence.ts.       *)
(***************************************************************************)
\* STORES, each holding the state of one slice of the store under 'data'.
PersistKeys == {"planner", "hints", "notes", "portals"}

\* The values of a slice: 0 is the store's initial value
\* (defaultPlannerState, []), 1 a value saved by an earlier session, and
\* 2, 3, ... the values the actions of this session produce, in order.
NoValue == -1

InitialValue == 0

SavedEarlier == 1

\* The state before main.tsx runs: the store as created, nothing requested.
InitPersist ==
  persist = [pc |-> "created",
             ready |-> FALSE,
             memory |-> [k \in PersistKeys |-> InitialValue],
             storage |-> [k \in PersistKeys |-> NoValue],
             requests |-> <<>>,
             loaded |-> [k \in {} |-> NoValue],
             acted |-> [k \in PersistKeys |-> NoValue],
             actions |-> 0]

\* Everything outside the planner store and the plan cache, before use.
InitRest ==
  InitIndex /\ InitScore /\ InitClimb /\ InitFrame /\ InitAdmin /\ InitChains /\ InitPersist

Init == InitPlanner(DefaultDims) /\ InitRefiner /\ InitRest

Spec == Init /\ [][Next]_vars

\* What a caller reads from a result: a step's recipe is the object it
\* refers to, with the field values that object has now.
View(result) ==
  [result EXCEPT
     !.steps = [k \in 1..Len(result.steps) |->
                  [result.steps[k] EXCEPT
                     !.recipe = [ref |-> result.steps[k].recipe,
                                 locked |-> locked[result.steps[k].recipe]]]]]

\* The caller keeps the result returned.
Hold(target, config, outcome) ==
  /\ outcome.kind = "ok"
  /\ held' = Append(held, [target |-> target, config |-> config, res |-> outcome.result,
                           orig |-> View(outcome.result)])

\* A planRefiner call whose result the caller keeps.  A second call repeats
\* the arguments of the first.
PlanHold(target, config) ==
  /\ Len(held) < MaxHeld
  /\ held # <<>> => target = held[1].target /\ config = held[1].config
  /\ PlanCall(target, config)
  /\ Hold(target, config, planRefiner(target, config).outcome)
  /\ UNCHANGED <<writes, plannerVars, indexVars, scoreVars, restVars>>

\* A caller's write to the first result it holds.
CallerWrite(res) ==
  /\ writes < MaxWrites
  /\ writes' = writes + 1
  /\ held' = [held EXCEPT ![1].res = res]
  /\ UNCHANGED <<locked, cache, last, requested, purged, plannerVars, indexVars, scoreVars, restVars>>

\* result.steps.pop()
PopStep ==
  /\ held # <<>>
  /\ held[1].res.steps # <<>>
  /\ CallerWrite([held[1].res EXCEPT !.steps = SubSeq(@, 1, Len(@) - 1)])

\* result.steps[k].runs = 0
WriteStep(k) ==
  /\ held # <<>>
  /\ k \in 1..Len(held[1].res.steps)
  /\ CallerWrite([held[1].res EXCEPT !.steps[k].runs = 0])

\* result.steps[k].inputs[j].qty = 0
WriteInput(k, j) ==
  /\ held # <<>>
  /\ k \in 1..Len(held[1].res.steps)
  /\ j \in 1..Len(held[1].res.steps[k].inputs)
  /\ CallerWrite([held[1].res EXCEPT !.steps[k].inputs[j].qty = 0])

\* result.baseMaterials.pop()
PopBaseMaterial ==
  /\ held # <<>>
  /\ held[1].res.baseMaterials # <<>>
  /\ CallerWrite([held[1].res EXCEPT !.baseMaterials = SubSeq(@, 1, Len(@) - 1)])

\* result.baseMaterials[k].qty = 0
WriteBaseMaterial(k) ==
  /\ held # <<>>
  /\ k \in 1..Len(held[1].res.baseMaterials)
  /\ CallerWrite([held[1].res EXCEPT !.baseMaterials[k].qty = 0])

\* result.steps[k].recipe.locked = false
WriteRecipe(k) ==
  /\ held # <<>>
  /\ k \in 1..Len(held[1].res.steps)
  /\ writes < MaxWrites
  /\ writes' = writes + 1
  /\ locked' = [locked EXCEPT ![held[1].res.steps[k].recipe] = FALSE]
  /\ UNCHANGED <<cache, last, requested, purged, held, plannerVars, indexVars, scoreVars, restVars>>

NextAlias ==
  \/ \E target \in Targets, config \in Configs : PlanHold(target, config)
  \/ PopStep
  \/ \E k \in 1..3 : WriteStep(k)
  \/ \E k \in 1..3, j \in 1..2 : WriteInput(k, j)
  \/ PopBaseMaterial
  \/ \E k \in 1..3 : WriteBaseMaterial(k)
  \/ \E k \in 1..3 : WriteRecipe(k)

SpecAlias == Init /\ [][NextAlias]_vars

\* The recipe list gains a recipe and the index is built from the new list:
\* canonicalIndex = buildCanonicalIndex(canonicalRecipes)
BuildIndex(recipe) ==
  /\ Len(catalog) < MaxRecipes
  /\ recipe \notin Range(catalog)
  /\ catalog' = Append(catalog, recipe)
  /\ built' = buildCanonicalIndex(Append(catalog, recipe))
  /\ builds' = 1
  /\ UNCHANGED <<plannerVars, refinerVars, scoreVars, restVars>>

\* buildCanonicalIndex called again with the same list
RebuildIndex ==
  /\ builds >= 1
  /\ builds < MaxBuilds
  /\ built' = buildCanonicalIndex(catalog)
  /\ builds' = builds + 1
  /\ UNCHANGED <<catalog, plannerVars, refinerVars, scoreVars, restVars>>

NextIndex ==
  \/ \E recipe \in DOMAIN Recipes : BuildIndex(recipe)
  \/ RebuildIndex

SpecIndex == Init /\ [][NextIndex]_vars

\* grid.slots[index].moduleId = moduleId
WriteModule(index, moduleId) ==
  /\ index < Len(planner.grid.slots)
  /\ planner' = [planner EXCEPT !.grid.slots[index + 1].moduleId = moduleId]
  /\ scored' = NoScore
  /\ UNCHANGED <<pc, iterations, i, modulesToPlace, moduleSlots, bestGrid, bestScore, ret,
                 refinerVars, indexVars, restVars>>

\* grid.slots[index].supercharged = flag
WriteSupercharged(index, flag) ==
  /\ index < Len(planner.grid.slots)
  /\ planner' = [planner EXCEPT !.grid.slots[index + 1].supercharged = flag]
  /\ scored' = NoScore
  /\ UNCHANGED <<pc, iterations, i, modulesToPlace, moduleSlots, bestGrid, bestScore, ret,
                 refinerVars, indexVars, restVars>>

\* score = scorePlannerGrid(planner.grid, moduleMap)
ScoreGrid(m) ==
  /\ scored' = [modules |-> m, grid |-> planner.grid,
                score |-> scorePlannerGrid(planner.grid, ModuleMaps[m])]
  /\ UNCHANGED <<plannerVars, refinerVars, indexVars, restVars>>

NextScore ==
  \/ \E index \in 0..3, moduleId \in ScoreIds \cup {NoModule} : WriteModule(index, moduleId)
  \/ \E index \in 0..3, flag \in BOOLEAN : WriteSupercharged(index, flag)
  \/ \E m \in DOMAIN ModuleMaps : ScoreGrid(m)

InitScoreGrid == (\E d \in ScoreDims : InitPlanner(d)) /\ InitRefiner /\ InitRest

SpecScore == InitScoreGrid /\ [][NextScore]_vars

\* A size typed into the Rows field, whose min and max the change handler
\* does not enforce: Number("-1").
TypedSizes == {<<-1, 2>>}

\* The planner store with the sizes of the selectors and the typed sizes.
NextGrid ==
  \/ NextPlanner
  \/ \E d \in TypedSizes : setPlannerGridSize(d[1], d[2])

(***************************************************************************)
(* suggestBestArrangement statement by statement: the two random draws,    *)
(* the redraw loop and the swap are separate steps.                        *)
(***************************************************************************)
\* Math.floor(Math.random() * n), 1-based: the first position when n = 0.
RandomIndexes(n) == IF n = 0 THEN {1} ELSE 1..n

\* const firstIdx = randomIndex(); let secondIdx = randomIndex()
Draw(firstIdx, secondIdx) ==
  /\ pc = "loop"
  /\ i < iterations
  /\ ~EarlyBreak(Len(moduleSlots))
  /\ firstIdx \in RandomIndexes(Len(moduleSlots))
  /\ secondIdx \in RandomIndexes(Len(moduleSlots))
  /\ drawn' = [firstIdx |-> firstIdx, secondIdx |-> secondIdx]
  /\ pc' = "drawn"
  /\ UNCHANGED <<planner, iterations, i, modulesToPlace, moduleSlots, bestGrid, bestScore, ret,
                 refinerVars, indexVars, scoreVars, frameVars, adminVars, chainVars, persistVars>>

\* while (secondIdx === firstIdx) secondIdx = randomIndex()
Redraw(secondIdx) ==
  /\ pc = "drawn"
  /\ drawn.secondIdx = drawn.firstIdx
  /\ secondIdx \in RandomIndexes(Len(moduleSlots))
  /\ drawn' = [drawn EXCEPT !.secondIdx = secondIdx]
  /\ UNCHANGED <<plannerVars, refinerVars, indexVars, scoreVars, frameVars, adminVars, chainVars, persistVars>>

\* A redraw that leaves the loop.
RedrawDistinct == \E secondIdx \in 1..4 : secondIdx # drawn.firstIdx /\ Redraw(secondIdx)

\* The swap on a clone of bestGrid, the comparison and i += 1.
SwapStep ==
  /\ pc = "drawn"
  /\ drawn.secondIdx # drawn.firstIdx
  /\ \E nextGrid \in {SwapModules(bestGrid, moduleSlots[drawn.firstIdx],
                                     moduleSlots[drawn.secondIdx])} :
       \E candidateScore \in {scorePlannerGrid(nextGrid, ModuleMap)} :
         IF Adopt(candidateScore, bestScore)
           THEN bestGrid' = nextGrid /\ bestScore' = candidateScore
           ELSE UNCHANGED <<bestGrid, bestScore>>
  /\ i' = i + 1
  /\ pc' = "loop"
  /\ drawn' = NoDraw
  /\ UNCHANGED <<planner, iterations, modulesToPlace, moduleSlots, ret,
                 refinerVars, indexVars, scoreVars, frameVars, adminVars, chainVars, persistVars>>

\* The steps of a call that has begun.
CallStep ==
  \/ \E firstIdx \in 1..4, secondIdx \in 1..4 : Draw(firstIdx, secondIdx)
  \/ \E secondIdx \in 1..4 : Redraw(secondIdx)
  \/ SwapStep
  \/ SuggestReturn

\* The module ids placed before a call whose steps are followed.
ClimbIds == {"alpha", "beta"}

NextClimb ==
  \/ \E k \in 1..4, m \in ClimbIds : placeModule(k, m)
  \/ \E m \in ClimbIds : pushBenchModule(m)
  \/ \E n \in 0..MaxIter : SuggestCall(n)
  \/ CallStep

(***************************************************************************)
(* The planner functions on objects: a PlannerState, its grid, the slots   *)
(* array, each slot and the bench array are objects of the heap, and a     *)
(* field that holds an object holds its address.                           *)
(***************************************************************************)
\* The heap after a new grid object over new slot objects of the given
\* contents and a new slots array; the grid is the last object.
WithGrid(h, rows, cols, slots) ==
  h \o slots
    \o << [k \in 1..Len(slots) |-> Len(h) + k],
          [rows |-> rows, cols |-> cols, slots |-> Len(h) + Len(slots) + 1] >>

\* The heap after a new bench array and a new PlannerState object; the
\* state is the last object.
WithState(h, platform, grid, benchModules) ==
  h \o << benchModules,
          [platform |-> platform, grid |-> grid, benchModules |-> Len(h) + 1] >>

\* The address of the k-th slot object of the grid object at g.
SlotRef(h, g, k) == h[h[g].slots][k]

\* The grid at g as a value.
GridValue(h, g) ==
  [rows |-> h[g].rows, cols |-> h[g].cols,
   slots |-> [k \in 1..Len(h[h[g].slots]) |-> h[SlotRef(h, g, k)]]]

\* The PlannerState at s as a value.
StateValue(h, s) ==
  [platform |-> h[s].platform, grid |-> GridValue(h, h[s].grid),
   benchModules |-> h[h[s].benchModules]]

\* A greedyPlacement that writes the placements into the slot objects of
\* its argument.
greedyPlacementInPlace(h, g, moduleIds) ==
  [heap |-> [a \in 1..Len(h) |->
               IF \E k \in 1..Len(h[h[g].slots]) : SlotRef(h, g, k) = a
                 THEN greedyPlacement(GridValue(h, g), moduleIds)
                        .slots[CHOOSE k \in 1..Len(h[h[g].slots]) : SlotRef(h, g, k) = a]
                 ELSE h[a]],
   grid |-> g]

\* greedyPlacement: slots.map(slot => ({ ...slot, ... })), the assignment of
\* new slot objects into that array, and { ...grid, slots }.
greedyPlacementRef(h, g, moduleIds) ==
  [heap |-> WithGrid(h, h[g].rows, h[g].cols, greedyPlacement(GridValue(h, g), moduleIds).slots),
   grid |-> Len(h) + Len(h[h[g].slots]) + 2]

\* clonePlannerGrid: a new grid over slots.map(slot => ({ ...slot }))
clonePlannerGridRef(h, g) ==
  [heap |-> WithGrid(h, h[g].rows, h[g].cols, GridValue(h, g).slots),
   grid |-> Len(h) + Len(h[h[g].slots]) + 2]

\* nextGrid.slots[a].moduleId and nextGrid.slots[b].moduleId exchanged by
\* two writes into the slot objects.
SwapRef(h, g, a, b) ==
  [h EXCEPT ![SlotRef(h, g, a)].moduleId = h[SlotRef(h, g, b)].moduleId,
            ![SlotRef(h, g, b)].moduleId = h[SlotRef(h, g, a)].moduleId]

\* createEmptyPlanner and the PlannerState literal of the caller.
FrameCreate(rows, cols) ==
  /\ arg = 0
  /\ heap' = WithState(WithGrid(<<>>, rows, cols, createEmptyPlanner(rows, cols).slots),
                       "starship", rows * cols + 2, <<>>)
  /\ arg' = rows * cols + 4
  /\ UNCHANGED <<snapshot, run, plannerVars, refinerVars, indexVars, scoreVars, climbVars, adminVars, chainVars, persistVars>>

\* planner.slots[k].moduleId = moduleId, by the caller before the call
FrameWriteModule(k, moduleId) ==
  /\ arg # 0
  /\ run.pc = "idle"
  /\ k \in 1..Len(heap[heap[heap[arg].grid].slots])
  /\ heap' = [heap EXCEPT ![SlotRef(heap, heap[arg].grid, k)].moduleId = moduleId]
  /\ PoolSize(StateValue(heap', arg)) <= MaxPool
  /\ UNCHANGED <<arg, snapshot, run, plannerVars, refinerVars, indexVars, scoreVars, climbVars, adminVars, chainVars, persistVars>>

\* planner.slots[k].supercharged = true
FrameWriteSupercharged(k) ==
  /\ arg # 0
  /\ run.pc = "idle"
  /\ k \in 1..Len(heap[heap[heap[arg].grid].slots])
  /\ heap' = [heap EXCEPT ![SlotRef(heap, heap[arg].grid, k)].supercharged = TRUE]
  /\ Supercharged(GridValue(heap', heap[arg].grid)) <= MaxSupercharged
  /\ UNCHANGED <<arg, snapshot, run, plannerVars, refinerVars, indexVars, scoreVars, climbVars, adminVars, chainVars, persistVars>>

\* benchModules: [..., moduleId] of the caller's PlannerState
FramePush(moduleId) ==
  /\ arg # 0
  /\ run.pc = "idle"
  /\ PoolSize(StateValue(heap, arg)) < MaxPool
  /\ heap' = [heap EXCEPT ![heap[arg].benchModules] = Append(@, moduleId)]
  /\ UNCHANGED <<arg, snapshot, run, plannerVars, refinerVars, indexVars, scoreVars, climbVars, adminVars, chainVars, persistVars>>

\* scorePlannerGrid(planner.grid, moduleMap): no statement of it writes
FrameScore ==
  /\ arg # 0
  /\ run.pc = "idle"
  /\ snapshot' = StateValue(heap, arg)
  /\ run' = [run EXCEPT !.pc = "scored",
                         !.bestScore = scorePlannerGrid(GridValue(heap, heap[arg].grid), ModuleMap)]
  /\ UNCHANGED <<heap, arg, plannerVars, refinerVars, indexVars, scoreVars, climbVars, adminVars, chainVars, persistVars>>

\* The locals of suggestBestArrangement after the greedy seed placed at
\* base.grid in base.heap.
Seeded(base, pool, n) ==
  [pc |-> "loop", iterations |-> n, i |-> 0, modulesToPlace |-> pool,
   moduleSlots |-> ModuleSlots(GridValue(base.heap, base.grid)),
   bestGrid |-> base.grid,
   bestScore |-> scorePlannerGrid(GridValue(base.heap, base.grid), ModuleMap),
   result |-> 0]

\* suggestBestArrangement up to the loop; modulesToPlace is a new array.
FrameSuggestCall(n) ==
  /\ arg # 0
  /\ run.pc = "idle"
  /\ snapshot' = StateValue(heap, arg)
  /\ \E pool \in {CurrentModules(GridValue(heap, heap[arg].grid)) \o heap[heap[arg].benchModules]} :
       \E base \in {greedyPlacementRef(heap, heap[arg].grid, pool)} :
         /\ heap' = base.heap
         /\ run' = Seeded(base, pool, n)
  /\ UNCHANGED <<arg, plannerVars, refinerVars, indexVars, scoreVars, climbVars, adminVars, chainVars, persistVars>>

\* One iteration; a clone that is not adopted is dropped.
FrameClimb(firstIdx, secondIdx) ==
  /\ run.pc = "loop"
  /\ run.i < run.iterations
  /\ ~EarlyBreak(Len(run.moduleSlots))
  /\ firstIdx \in 1..Len(run.moduleSlots)
  /\ secondIdx \in 1..Len(run.moduleSlots)
  /\ secondIdx # firstIdx
  /\ \E clone \in {clonePlannerGridRef(heap, run.bestGrid)} :
       \E swapped \in {SwapRef(clone.heap, clone.grid, run.moduleSlots[firstIdx],
                                run.moduleSlots[secondIdx])} :
         \E candidateScore \in {scorePlannerGrid(GridValue(swapped, clone.grid), ModuleMap)} :
           IF Adopt(candidateScore, run.bestScore)
             THEN /\ heap' = swapped
                  /\ run' = [run EXCEPT !.bestGrid = clone.grid,
                                         !.bestScore = candidateScore,
                                         !.i = run.i + 1]
             ELSE /\ heap' = heap
                  /\ run' = [run EXCEPT !.i = run.i + 1]
  /\ UNCHANGED <<arg, snapshot, plannerVars, refinerVars, indexVars, scoreVars, climbVars, adminVars, chainVars, persistVars>>

\* return { ...planner, grid: bestGrid, benchModules: remainingBench }
FrameReturn ==
  /\ run.pc = "loop"
  /\ run.i >= run.iterations \/ EarlyBreak(Len(run.moduleSlots))
  /\ heap' = WithState(heap, heap[arg].platform, run.bestGrid,
                       RemainingBench(run.modulesToPlace, GridValue(heap, run.bestGrid)))
  /\ run' = [run EXCEPT !.pc = "done", !.result = Len(heap) + 2]
  /\ UNCHANGED <<arg, snapshot, plannerVars, refinerVars, indexVars, scoreVars, climbVars, adminVars, chainVars, persistVars>>

NextFrame ==
  \/ \E d \in GridDims : FrameCreate(d[1], d[2])
  \/ \E k \in 1..4, m \in PoolIds : FrameWriteModule(k, m)
  \/ \E k \in 1..4 : FrameWriteSupercharged(k)
  \/ \E m \in PoolIds : FramePush(m)
  \/ FrameScore
  \/ \E n \in 0..MaxIter : FrameSuggestCall(n)
  \/ \E a \in 1..4, b \in 1..4 : FrameClimb(a, b)
  \/ FrameReturn

SpecFrame == Init /\ [][NextFrame]_vars

\* onChange of the Quantity field
TypeQuantity(text) ==
  /\ admin' = [admin EXCEPT !.form.adminQuantity = SanitizeQuantity(InputValue(text)),
                            !.form.typedQuantity = text,
                            !.form.typed = @ \cup {"quantity"},
                            !.applied = FALSE]
  /\ UNCHANGED <<plannerVars, refinerVars, indexVars, scoreVars, climbVars, frameVars, chainVars, persistVars>>

\* onChange of the Time field
TypeTime(text) ==
  /\ admin' = [admin EXCEPT !.form.adminTime = SanitizeTime(InputValue(text)),
                            !.form.typedTime = text,
                            !.form.typed = @ \cup {"time"},
                            !.applied = FALSE]
  /\ UNCHANGED <<plannerVars, refinerVars, indexVars, scoreVars, climbVars, frameVars, chainVars, persistVars>>

\* onChange of the Inputs (JSON) field
TypeInputs(t) ==
  /\ admin' = [admin EXCEPT !.form.adminInputs = t,
                            !.form.typed = @ \cup {"inputs"},
                            !.applied = FALSE]
  /\ UNCHANGED <<plannerVars, refinerVars, indexVars, scoreVars, climbVars, frameVars, chainVars, persistVars>>

\* The inputs handleApplyAdmin parses: the text typed, or the recipe's own
\* inputs as the effect wrote them into the field.
ParsedInputs(form, recipe) ==
  IF form.adminInputs = 0
    THEN [text |-> "recipe.inputs", parsed |-> "array",
          entries |-> [k \in DOMAIN recipe.inputs |->
                         [item |-> recipe.inputs[k].item, qty |-> recipe.inputs[k].qty,
                          typeofQty |-> "number"]]]
    ELSE InputTexts[form.adminInputs]

\* applyCanonicalRecipePatch(id, patch): the fields of the patch replace
\* the fields of the recipe.
applyCanonicalRecipePatch(recipe, patch) ==
  [recipe EXCEPT !.quantity = patch.quantity, !.time_s = patch.time_s, !.inputs = patch.inputs]

\* parsed.map((entry) => ({ item: entry.item, qty: Number(entry.qty) }))
sanitizedInputs(entries) ==
  [k \in DOMAIN entries |-> [item |-> entries[k].item, qty |-> entries[k].qty]]

\* The patch handleApplyAdmin passes on when nothing was thrown.
PatchOf(form, recipe) ==
  [quantity |-> Max(1, form.adminQuantity), time_s |-> Max(0, form.adminTime),
   inputs |-> sanitizedInputs(ParsedInputs(form, recipe).entries)]

\* handleApplyAdmin, and after a patch the effect that fills the form from
\* the patched recipe.
ApplyAdmin ==
  /\ admin.patches < MaxPatches
  /\ admin' =
       IF ApplyError(ParsedInputs(admin.form, admin.recipe)) # NoError
         THEN [admin EXCEPT !.adminError = ApplyError(ParsedInputs(admin.form, admin.recipe)),
                            !.before = admin.recipe,
                            !.submitted = admin.form,
                            !.applied = TRUE]
         ELSE [admin EXCEPT !.recipe = applyCanonicalRecipePatch(admin.recipe,
                                                                 PatchOf(admin.form, admin.recipe)),
                            !.form = FormOf(applyCanonicalRecipePatch(admin.recipe,
                                                                      PatchOf(admin.form, admin.recipe))),
                            !.before = admin.recipe,
                            !.submitted = admin.form,
                            !.adminError = NoError,
                            !.patches = admin.patches + 1,
                            !.applied = TRUE]
  /\ UNCHANGED <<plannerVars, refinerVars, indexVars, scoreVars, climbVars, frameVars, chainVars, persistVars>>

NextAdmin ==
  \/ \E text \in FieldTexts : TypeQuantity(text)
  \/ \E text \in FieldTexts : TypeTime(text)
  \/ \E t \in DOMAIN InputTexts : TypeInputs(t)
  \/ ApplyAdmin

SpecFail == Init /\ [][NextFail]_vars

SpecAdmin == Init /\ [][NextAdmin]_vars

\* suggestRefinerChains(inputs, recipes, items, maxDepth, maxSuggestions)
\* up to the loop.
SuggestChainsCall(inputs, maxDepth, maxSuggestions) ==
  /\ chains.pc \in {"idle", "done"}
  /\ chains' = [NoChains EXCEPT !.pc = "loop", !.inputs = inputs, !.maxDepth = maxDepth,
                                !.maxSuggestions = maxSuggestions,
                                !.queue = <<[available |-> baseItems(inputs), steps |-> <<>>,
                                             time |-> 0, value |-> 0]>>]
  /\ UNCHANGED <<plannerVars, refinerVars, indexVars, scoreVars, climbVars, frameVars, adminVars, persistVars>>

\* What one pass of the while loop makes of the call, for the state it
\* shifted off the queue.
LoopPass(c, state) ==
  IF <<state.available, Len(state.steps)>> \in c.visited
    THEN [c EXCEPT !.queue = Tail(c.queue)]
    ELSE [c EXCEPT
            !.visited = @ \cup {<<state.available, Len(state.steps)>>},
            !.results = IF Len(state.steps) > 0
                          THEN Append(@, [steps |-> state.steps, totalTime |-> state.time,
                                          totalValue |-> state.value,
                                          valuePerHour |-> valuePerHour(state.value, state.time)])
                          ELSE @,
            !.queue = IF Len(state.steps) >= c.maxDepth
                        THEN Tail(@)
                        ELSE Tail(@) \o Pushed(state, 1)]

\* One pass of while (queue.length > 0).
ChainsLoop ==
  /\ chains.pc = "loop"
  /\ Len(chains.queue) > 0
  /\ chains' = LoopPass(chains, Head(chains.queue))
  /\ UNCHANGED <<plannerVars, refinerVars, indexVars, scoreVars, climbVars, frameVars, adminVars, persistVars>>

\* return results.sort(...).slice(0, maxSuggestions)
ChainsReturn ==
  /\ chains.pc = "loop"
  /\ Len(chains.queue) = 0
  /\ chains' = [chains EXCEPT !.pc = "done",
                              !.found = Len(chains.results),
                              !.ret = Slice(SortByValuePerHour(chains.results),
                                            chains.maxSuggestions)]
  /\ UNCHANGED <<plannerVars, refinerVars, indexVars, scoreVars, climbVars, frameVars, adminVars, persistVars>>

NextChains ==
  \/ \E inputs \in SlotLists, maxDepth \in 0..MaxChainDepth, maxSuggestions \in 0..MaxSuggestions :
       SuggestChainsCall(inputs, maxDepth, maxSuggestions)
  \/ ChainsLoop
  \/ ChainsReturn

\* The call is synchronous: once entered, the loop runs on until it returns.
SpecChains == Init /\ [][NextChains]_vars /\ WF_vars(ChainsLoop) /\ WF_vars(ChainsReturn)

\* void hydrateStore() of main.tsx: hydrate asks for the four stores, each
\* holding what an earlier session left in it, if anything.
HydrateStart(saved) ==
  /\ persist.pc = "created"
  /\ persist' = [persist EXCEPT
                   !.pc = "loading",
                   !.storage = [k \in PersistKeys |-> IF k \in saved THEN SavedEarlier ELSE NoValue],
                   !.requests = <<[op |-> "get", key |-> "planner", value |-> NoValue],
                                  [op |-> "get", key |-> "hints", value |-> NoValue],
                                  [op |-> "get", key |-> "notes", value |-> NoValue],
                                  [op |-> "get", key |-> "portals", value |-> NoValue]>>]
  /\ UNCHANGED <<plannerVars, refinerVars, indexVars, scoreVars, climbVars, frameVars, adminVars, chainVars>>

\* A store action that persists (placeModule, upsertNote, upsertHint,
\* addPortalEntry, ...): set() puts the new value of the slice in memory
\* and withPersist asks for it to be saved.
PersistingAction(key) ==
  /\ persist.pc # "created"
  /\ persist.actions < MaxActions
  /\ persist' = [persist EXCEPT
                   !.memory[key] = persist.actions + 2,
                   !.acted[key] = IF persist.ready THEN @ ELSE persist.actions + 2,
                   !.requests = Append(@, [op |-> "put", key |-> key, value |-> persist.actions + 2]),
                   !.actions = @ + 1]
  /\ UNCHANGED <<plannerVars, refinerVars, indexVars, scoreVars, climbVars, frameVars, adminVars, chainVars>>

Without(s, n) == [k \in 1..(Len(s) - 1) |-> IF k < n THEN s[k] ELSE s[k + 1]]

\* The requests on one object store are served in the order made.
Servable(n) ==
  /\ n \in DOMAIN persist.requests
  /\ \A k \in 1..(n - 1) : persist.requests[k].key # persist.requests[n].key

\* db.put(key, value, 'data') completes.
PutDone(n) ==
  /\ Servable(n)
  /\ persist.requests[n].op = "put"
  /\ persist' = [persist EXCEPT !.storage[persist.requests[n].key] = persist.requests[n].value,
                                !.requests = Without(@, n)]
  /\ UNCHANGED <<plannerVars, refinerVars, indexVars, scoreVars, climbVars, frameVars, adminVars, chainVars>>

\* persisted ?? state.slice
OrState(persisted, current) == IF persisted # NoValue THEN persisted ELSE current

\* db.get(key, 'data') completes; with the last of the four, Promise.all
\* resolves and hydrate sets ready and the slices.
GetDone(n) ==
  /\ Servable(n)
  /\ persist.requests[n].op = "get"
  /\ \E loaded \in {(persist.requests[n].key :> persist.storage[persist.requests[n].key])
                       @@ persist.loaded} :
       persist' =
         IF DOMAIN loaded = PersistKeys
           THEN [persist EXCEPT !.pc = "hydrated",
                                !.ready = TRUE,
                                !.memory = [k \in PersistKeys |-> OrState(loaded[k], persist.memory[k])],
                                !.loaded = loaded,
                                !.requests = Without(@, n)]
           ELSE [persist EXCEPT !.loaded = loaded, !.requests = Without(@, n)]
  /\ UNCHANGED <<plannerVars, refinerVars, indexVars, scoreVars, climbVars, frameVars, adminVars, chainVars>>

NextPersist ==
  \/ \E saved \in SUBSET PersistKeys : HydrateStart(saved)
  \/ \E key \in PersistKeys : PersistingAction(key)
  \/ \E n \in 1..(MaxActions + 4) : PutDone(n)
  \/ \E n \in 1..(MaxActions + 4) : GetDone(n)

SpecPersist == Init /\ [][NextPersist]_vars

InitAnyGrid == (\E d \in GridDims : InitPlanner(d)) /\ InitRefiner /\ InitRest

SpecPlanner == InitAnyGrid /\ [][NextPlanner]_vars

SpecGrid == InitAnyGrid /\ [][NextGrid]_vars

\* A call that has begun keeps running, and the random source is fair: it
\* does not return firstIdx for ever when another index exists.
SpecClimb ==
  InitAnyGrid /\ [][NextClimb]_vars /\ WF_vars(CallStep) /\ WF_vars(RedrawDistinct)

(***************************************************************************)
(* C1: the grid suggestBestArrangement returns scores at least as much as  *)
(* the grid it was given.                                                  *)
(***************************************************************************)
SuggestNeverReducesScore ==
  pc = "done" => scorePlannerGrid(ret.grid, ModuleMap) >= scorePlannerGrid(planner.grid, ModuleMap)

(***************************************************************************)
(* C2: suggestBestArrangement conserves the module pool: occupied slots    *)
(* plus bench length is the same in the returned state as in the input.    *)
(***************************************************************************)
SuggestConservesPool ==
  pc = "done" => PoolSize(ret) = PoolSize(planner)

(***************************************************************************)
(* C3: two planRefiner calls with the same arguments return value-equal    *)
(* results, and a caller's write to the first result it holds changes      *)
(* neither the other result nor what a later call with the same key        *)
(* returns.                                                                *)
(***************************************************************************)
HeldResultsIndependent ==
  Len(held) = 2 =>
    /\ held[2].orig = held[1].orig
    /\ View(held[2].res) = held[2].orig

\* What an uncached planRefiner(target, config) call returns or throws.
Fresh(target, config) ==
  StoreComputed(CacheKey(target, config), PlanUncached(target, config)).outcome

\* The candidates of the last call's item in the index passed to that call.
LastOptions == Options(Indexes[last.config.index], last.target.itemId)

(***************************************************************************)
(* C4: every planRefiner call returns the plan, or throws the error, that  *)
(* an uncached computation over the index and categories passed to that    *)
(* call produces.                                                          *)
(***************************************************************************)
PlanMatchesFresh ==
  last.op = "plan" => last.outcome = Fresh(last.target, last.config)

(***************************************************************************)
(* C5: after clearPlannerCache the cache holds no entries, and the first   *)
(* call for a key after a clear misses the cache and returns what an       *)
(* uncached computation over its own index and categories produces.        *)
(***************************************************************************)
ClearPurgesCache ==
  /\ last.op = "clear" => DOMAIN cache = {}
  /\ last.op = "plan" /\ last.first /\ purged =>
        /\ ~last.hit
        /\ last.outcome = Fresh(last.target, last.config)

\* A first call after a clear that removed an entry of the same key computed
\* from another index, and returned a plan.
ClearPurgesCacheWitness ==
  /\ last.op = "plan" /\ last.first /\ purged
  /\ last.outcome.kind = "ok"
  /\ last.config.index = 2
  /\ last.outcome.result.recipeId # Fresh(last.target, [last.config EXCEPT !.index = 1]).result.recipeId

(***************************************************************************)
(* C6: a planRefiner call throws MissingCanonicalRecipeError exactly when  *)
(* the index passed to it has no entry, or an empty list, for the item.    *)
(***************************************************************************)
MissingIffNoCandidates ==
  last.op = "plan" =>
    (last.outcome.kind = "MissingCanonicalRecipeError" <=> LastOptions = <<>>)

(***************************************************************************)
(* C7: with a recipeId that a candidate of the item has, the root recipe   *)
(* of the plan is that candidate; with a recipeId no candidate has, the    *)
(* call throws an error other than MissingCanonicalRecipeError; without a  *)
(* recipeId, the root recipe is the first candidate of the index list.     *)
(***************************************************************************)
RootRecipeSelected ==
  last.op = "plan" /\ LastOptions # <<>> =>
    IF last.target.recipeId # NoRecipeId
      THEN IF \E k \in 1..Len(LastOptions) : Recipes[LastOptions[k]].id = last.target.recipeId
             THEN /\ last.outcome.kind = "ok"
                  /\ last.outcome.result.recipeId = last.target.recipeId
                  /\ \E k \in 1..Len(LastOptions) :
                       /\ Recipes[LastOptions[k]].id = last.target.recipeId
                       /\ last.outcome.result.steps[1].recipe = LastOptions[k]
             ELSE last.outcome.kind = "Error"
      ELSE /\ last.outcome.kind = "ok"
           /\ last.outcome.result.steps[1].recipe = LastOptions[1]

\* The quantity one run of the recipe takes of the item, over all its inputs.
InputTotal(recipe, item) ==
  SumSeq([j \in 1..Len(Recipes[recipe].inputs) |->
            IF Recipes[recipe].inputs[j].item = item THEN Recipes[recipe].inputs[j].qty ELSE 0])

(***************************************************************************)
(* C8: a plan returned in strict mode has exactly one step, the root       *)
(* recipe at depth 0, whatever maxDepth was passed, and each input item of *)
(* the root recipe is in baseMaterials with the quantity one run takes of  *)
(* it times the runs.                                                      *)
(***************************************************************************)
StrictSingleStep ==
  last.op = "plan" /\ last.config.mode = "strict" /\ last.outcome.kind = "ok" =>
    /\ Len(last.outcome.result.steps) = 1
    /\ last.outcome.result.steps[1].depth = 0
    /\ Recipes[last.outcome.result.steps[1].recipe].id = last.outcome.result.recipeId
    /\ \A j \in 1..Len(Recipes[last.outcome.result.steps[1].recipe].inputs) :
         \E m \in 1..Len(last.outcome.result.baseMaterials) :
           /\ last.outcome.result.baseMaterials[m].itemId =
                Recipes[last.outcome.result.steps[1].recipe].inputs[j].item
           /\ last.outcome.result.baseMaterials[m].qty =
                InputTotal(last.outcome.result.steps[1].recipe,
                           Recipes[last.outcome.result.steps[1].recipe].inputs[j].item)
                  * last.outcome.result.steps[1].runs

\* A computed strict plan with a maxDepth above 0 passed, of two runs of a
\* root recipe that names one input item twice, an item the index has a
\* recipe for.
StrictSingleStepWitness ==
  /\ last.op = "plan" /\ last.config.mode = "strict" /\ last.outcome.kind = "ok"
  /\ ~last.hit
  /\ last.config.maxDepth > 0
  /\ last.outcome.result.steps[1].runs = 2
  /\ \E j, k \in 1..Len(Recipes[last.outcome.result.steps[1].recipe].inputs) :
       /\ j # k
       /\ Recipes[last.outcome.result.steps[1].recipe].inputs[j].item =
            Recipes[last.outcome.result.steps[1].recipe].inputs[k].item
       /\ Options(Indexes[last.config.index],
                  Recipes[last.outcome.result.steps[1].recipe].inputs[j].item) # <<>>

\* The tree planSynthesis builds for the arguments of the last call.
LastTree ==
  SynthesisRoot(selectRecipe(LastOptions, last.target.recipeId), last.target.quantity,
                Indexes[last.config.index], CategoryMaps[last.config.categories],
                EffectiveMaxDepth(last.config))

\* The last call was in synthesis mode with arguments that have a plan.
LastSynthesis ==
  /\ last.op = "plan"
  /\ last.config.mode = "synthesis"
  /\ Fresh(last.target, last.config).kind = "ok"

\* The nodes of a tree, each with the items recipes produce on the path
\* from the root to its parent.
RECURSIVE Paths(_, _)
Paths(node, seen) ==
  {[node |-> node, seen |-> seen]} \cup
  UNION { Paths(node.children[k], seen \cup {node.itemId}) : k \in 1..Len(node.children) }

(***************************************************************************)
(* C9: in synthesis mode every step of a returned plan has depth at most   *)
(* maxDepth (config.maxDepth, or 2 when omitted), and a node deeper than   *)
(* maxDepth is a leaf.                                                     *)
(***************************************************************************)
SynthesisDepthBounded ==
  /\ last.op = "plan" /\ last.config.mode = "synthesis" /\ last.outcome.kind = "ok" =>
        \A k \in 1..Len(last.outcome.result.steps) :
          last.outcome.result.steps[k].depth <= EffectiveMaxDepth(last.config)
  /\ LastSynthesis =>
        \A p \in Paths(LastTree, {}) :
          p.node.depth > EffectiveMaxDepth(last.config) =>
            p.node.recipe = NoRecipe /\ p.node.children = <<>>

\* A computed synthesis plan with maxDepth omitted that has a step at depth
\* 2 and, below it, a leaf for an item that is not on its own path and
\* that the index has a recipe for.
SynthesisDepthBoundedWitness ==
  /\ LastSynthesis
  /\ ~last.hit
  /\ last.config.maxDepth = NoDepth
  /\ \E k \in 1..Len(last.outcome.result.steps) : last.outcome.result.steps[k].depth = 2
  /\ \E p \in Paths(LastTree, {}) :
       /\ p.node.depth = 3
       /\ p.node.recipe = NoRecipe
       /\ p.node.itemId \notin p.seen
       /\ Options(Indexes[last.config.index], p.node.itemId) # <<>>
       /\ \E m \in 1..Len(last.outcome.result.baseMaterials) :
            last.outcome.result.baseMaterials[m].itemId = p.node.itemId

(***************************************************************************)
(* C10: synthesis planning terminates, and on every root-to-node path of   *)
(* the tree it builds no item is produced by a recipe more than once.      *)
(***************************************************************************)
NoItemTwiceOnPath ==
  LastSynthesis =>
    \A p \in Paths(LastTree, {}) :
      p.node.recipe # NoRecipe => p.node.itemId \notin p.seen

\* A synthesis tree over a catalog with a cycle: a leaf, no deeper than
\* maxDepth, for an item that a recipe on its own path produces.
NoItemTwiceOnPathWitness ==
  /\ LastSynthesis
  /\ \E p \in Paths(LastTree, {}) :
       /\ p.node.itemId \in p.seen
       /\ p.node.recipe = NoRecipe
       /\ p.node.depth <= EffectiveMaxDepth(last.config)
       /\ Options(Indexes[last.config.index], p.node.itemId) # <<>>

\* The arguments of the last call have a plan.
LastPlanned ==
  /\ last.op = "plan"
  /\ Fresh(last.target, last.config).kind = "ok"

\* The tree planStrict or planSynthesis builds for the arguments of the last call.
LastRoot ==
  IF last.config.mode = "strict"
    THEN StrictRoot(selectRecipe(LastOptions, last.target.recipeId), last.target.quantity,
                    Indexes[last.config.index], CategoryMaps[last.config.categories])
    ELSE LastTree

\* The nodes of the tree that apply a recipe.
RecipeNodes(root) == { p.node : p \in { x \in Paths(root, {}) : x.node.recipe # NoRecipe } }

(***************************************************************************)
(* C11: every recipe application of a plan runs the least number of times  *)
(* that yields the desired quantity, at least once: runs >= 1,             *)
(* (runs - 1) * q < n <= runs * q, outputQty = runs * q and timeSeconds =  *)
(* runs * t; the result's outputQty is at least its targetQty.             *)
(***************************************************************************)
RunsRoundUp ==
  /\ last.op = "plan" /\ last.outcome.kind = "ok" =>
        /\ last.outcome.result.targetQty = last.target.quantity
        /\ last.outcome.result.outputQty >= last.outcome.result.targetQty
        /\ last.outcome.result.outputQty = last.outcome.result.steps[1].outputQty
        /\ (last.outcome.result.steps[1].runs - 1)
               * Recipes[last.outcome.result.steps[1].recipe].quantity < last.target.quantity
        /\ \A k \in 1..Len(last.outcome.result.steps) :
             /\ last.outcome.result.steps[k].runs >= 1
             /\ last.outcome.result.steps[k].outputQty =
                  last.outcome.result.steps[k].runs * Recipes[last.outcome.result.steps[k].recipe].quantity
             /\ last.outcome.result.steps[k].timeSeconds =
                  last.outcome.result.steps[k].runs * Recipes[last.outcome.result.steps[k].recipe].time_s
  /\ LastPlanned =>
        \A n \in RecipeNodes(LastRoot) :
          /\ n.runs >= 1
          /\ n.actualQty = n.runs * Recipes[n.recipe].quantity
          /\ n.actualQty >= n.desiredQty
          /\ (n.runs - 1) * Recipes[n.recipe].quantity < n.desiredQty
          /\ n.timeSeconds = n.runs * Recipes[n.recipe].time_s

\* A computed plan with a recipe applied more than once whose batches
\* yield more than the quantity desired of it.
RunsRoundUpWitness ==
  /\ LastPlanned
  /\ ~last.hit
  /\ \E n \in RecipeNodes(LastRoot) :
       /\ n.runs >= 2
       /\ n.actualQty > n.desiredQty
       /\ \E k \in 1..Len(last.outcome.result.steps) :
            /\ last.outcome.result.steps[k].recipe = n.recipe
            /\ last.outcome.result.steps[k].runs = n.runs

\* The quantities of the leaves of the tree that hold the item, depth first.
RECURSIVE LeafQtys(_, _)
RECURSIVE LeafQtysOfChildren(_, _)
LeafQtys(node, item) ==
  IF node.children = <<>>
    THEN IF node.itemId = item THEN <<node.actualQty>> ELSE <<>>
    ELSE LeafQtysOfChildren(node.children, item)

LeafQtysOfChildren(children, item) ==
  IF children = <<>> THEN <<>>
  ELSE LeafQtys(Head(children), item) \o LeafQtysOfChildren(Tail(children), item)

\* The item ids the catalogs name.
ItemIds == {"target", "mid", "base", "ore"}

LastAllowed ==
  collectCategories(selectRecipe(LastOptions, last.target.recipeId),
                    CategoryMaps[last.config.categories])

\* The item has no category in the map of the last call, or an allowed one.
CategoryAllowed(item) ==
  \/ item \notin DOMAIN CategoryMaps[last.config.categories]
  \/ CategoryMaps[last.config.categories][item] \in LastAllowed

(***************************************************************************)
(* C13: in synthesis mode, when the root recipe's inputs have categories,  *)
(* every recipe applied at depth >= 1 has only inputs without a category   *)
(* or with one of those categories, and so has every base material; when   *)
(* they have none, the tree is the one built without any category map.     *)
(***************************************************************************)
CategoryGuardHolds ==
  LastSynthesis =>
    IF LastAllowed # {}
      THEN /\ \A n \in RecipeNodes(LastTree) :
                n.depth >= 1 =>
                  \A k \in 1..Len(Recipes[n.recipe].inputs) :
                    CategoryAllowed(Recipes[n.recipe].inputs[k].item)
           /\ \A k \in 1..Len(Fresh(last.target, last.config).result.baseMaterials) :
                CategoryAllowed(Fresh(last.target, last.config).result.baseMaterials[k].itemId)
      ELSE LastTree =
             SynthesisRoot(selectRecipe(LastOptions, last.target.recipeId), last.target.quantity,
                           Indexes[last.config.index], CategoryMaps[1],
                           EffectiveMaxDepth(last.config))

\* A synthesis tree with categories on the root's inputs, a recipe applied
\* below the root that has an input without a category, and an item left
\* a leaf, within maxDepth and not on its own path, because each of its
\* recipes has an input of another category.
CategoryGuardHoldsWitness ==
  /\ LastSynthesis /\ ~last.hit
  /\ LastAllowed # {}
  /\ \E n \in RecipeNodes(LastTree) :
       /\ n.depth >= 1
       /\ \E k \in 1..Len(Recipes[n.recipe].inputs) :
            Recipes[n.recipe].inputs[k].item \notin DOMAIN CategoryMaps[last.config.categories]
  /\ \E p \in Paths(LastTree, {}) :
       /\ p.node.recipe = NoRecipe
       /\ p.node.depth <= EffectiveMaxDepth(last.config)
       /\ p.node.itemId \notin p.seen
       /\ Options(Indexes[last.config.index], p.node.itemId) # <<>>
       /\ \A c \in Range(Options(Indexes[last.config.index], p.node.itemId)) :
            \E k \in 1..Len(Recipes[c].inputs) : ~CategoryAllowed(Recipes[c].inputs[k].item)

\* The name a recipe is sorted by.
SortName(r) == IF Recipes[r].name # NoName THEN Recipes[r].name ELSE Recipes[r].output

\* Recipe a may stand before recipe b: fewer inputs, or as many and a
\* shorter time, or the same of both and a name that is not greater.
MayPrecede(a, b) ==
  \/ Len(Recipes[a].inputs) < Len(Recipes[b].inputs)
  \/ /\ Len(Recipes[a].inputs) = Len(Recipes[b].inputs)
     /\ \/ Recipes[a].time_s < Recipes[b].time_s
        \/ /\ Recipes[a].time_s = Recipes[b].time_s
           /\ StrRank(SortName(a)) <= StrRank(SortName(b))

\* The index holds each recipe of the list once, in the list of its output,
\* and nothing else, and each list is in order.
IndexSorted ==
  /\ DOMAIN built = { Recipes[catalog[k]].output : k \in 1..Len(catalog) }
  /\ \A k \in 1..Len(catalog) :
       Cardinality({ j \in 1..Len(built[Recipes[catalog[k]].output]) :
                       built[Recipes[catalog[k]].output][j] = catalog[k] }) = 1
  /\ \A item \in DOMAIN built :
       /\ \A j \in 1..Len(built[item]) :
            /\ Recipes[built[item][j]].output = item
            /\ built[item][j] \in Range(catalog)
       /\ \A j, k \in 1..Len(built[item]) : j < k => MayPrecede(built[item][j], built[item][k])

(***************************************************************************)
(* C14: buildCanonicalIndex puts each recipe of the list once in the list  *)
(* of its output, each list ordered by fewer inputs, then shorter time,    *)
(* then name (output id when there is no name); building the index again   *)
(* from the same list gives the same index.                                *)
(***************************************************************************)
IndexSortedAndStable ==
  /\ [](IndexSorted)
  /\ [][builds >= 1 /\ builds' = builds + 1 => built' = built]_vars

\* An index built twice from a list that is not in order, in which a
\* one-input recipe stands before a faster two-input recipe and a recipe
\* without a name is placed by its output id.
IndexSortedAndStableWitness ==
  /\ builds = 2
  /\ \E item \in DOMAIN built : \E j, k \in 1..Len(built[item]) :
       /\ j < k
       /\ Len(Recipes[built[item][j]].inputs) = 1
       /\ Len(Recipes[built[item][k]].inputs) = 2
       /\ Recipes[built[item][j]].time_s > Recipes[built[item][k]].time_s
  /\ \E item \in DOMAIN built : \E j, k \in 1..Len(built[item]) :
       /\ j < k
       /\ Recipes[built[item][k]].name = NoName
       /\ Len(Recipes[built[item][j]].inputs) = Len(Recipes[built[item][k]].inputs)
       /\ Recipes[built[item][j]].time_s = Recipes[built[item][k]].time_s
  /\ \A item \in DOMAIN built : \A j, k \in 1..Len(built[item]) :
       j < k => \E m, n \in 1..Len(catalog) :
                  m > n /\ catalog[m] = built[item][j] /\ catalog[n] = built[item][k]

\* The weight the module of a slot takes from the slot at (row, col): none
\* outside the grid or from an empty slot, else its own adjacency entry for
\* the module id there, 0 without an entry.
WeightFrom(grid, module, row, col) ==
  IF row < 0 \/ row >= grid.rows \/ col < 0 \/ col >= grid.cols THEN 0
  ELSE IF grid.slots[row * grid.cols + col + 1].moduleId = NoModule THEN 0
  ELSE IF grid.slots[row * grid.cols + col + 1].moduleId \in DOMAIN module.adjacency
    THEN module.adjacency[grid.slots[row * grid.cols + col + 1].moduleId]
    ELSE 0

\* Twice the contribution of the slot at (row, col).
Contribution2(grid, modules, row, col) ==
  IF grid.slots[row * grid.cols + col + 1].moduleId \notin DOMAIN modules THEN 0
  ELSE (modules[grid.slots[row * grid.cols + col + 1].moduleId].baseValue
          + WeightFrom(grid, modules[grid.slots[row * grid.cols + col + 1].moduleId], row - 1, col)
          + WeightFrom(grid, modules[grid.slots[row * grid.cols + col + 1].moduleId], row + 1, col)
          + WeightFrom(grid, modules[grid.slots[row * grid.cols + col + 1].moduleId], row, col - 1)
          + WeightFrom(grid, modules[grid.slots[row * grid.cols + col + 1].moduleId], row, col + 1))
       * (IF grid.slots[row * grid.cols + col + 1].supercharged
            THEN modules[grid.slots[row * grid.cols + col + 1].moduleId].mult2
            ELSE 2)

\* Twice the sum of the contributions of all slots.
RECURSIVE SumTo(_, _)
SumTo(f, n) == IF n = 0 THEN 0 ELSE f[n - 1] + SumTo(f, n - 1)

Total2(grid, modules) ==
  SumTo([r \in 0..(grid.rows - 1) |->
           SumTo([c \in 0..(grid.cols - 1) |-> Contribution2(grid, modules, r, c)], grid.cols)],
        grid.rows)

\* The grid of the scoring test: alpha, beta, gamma, delta on 2 x 2 with
\* slot 0 supercharged.
TestGrid ==
  [createEmptyPlanner(2, 2) EXCEPT
     !.slots[1].moduleId = "alpha", !.slots[1].supercharged = TRUE,
     !.slots[2].moduleId = "beta", !.slots[3].moduleId = "gamma", !.slots[4].moduleId = "delta"]

(***************************************************************************)
(* C15: scorePlannerGrid returns the rounded sum over the slots holding a  *)
(* module of the map of (baseValue + the module's own adjacency weights    *)
(* for the module ids in the orthogonal neighbours), times the module's    *)
(* superchargeMultiplier on a supercharged slot: 200 for alpha alone on a  *)
(* supercharged 1 x 1 grid, 655 for the grid of the test.                  *)
(***************************************************************************)
ScoreIsAdjacencySum ==
  scored # NoScore =>
    /\ 2 * scored.score - 1 <= Total2(scored.grid, ModuleMaps[scored.modules])
    /\ Total2(scored.grid, ModuleMaps[scored.modules]) <= 2 * scored.score
    /\ scored.modules = 1 /\ scored.grid = TestGrid => scored.score = 655
    /\ scored.modules = 1 /\ scored.grid.rows = 1 /\ scored.grid.slots[1].supercharged
         /\ scored.grid.slots[1].moduleId = "alpha" => scored.score = 200

\* The grid of the test scored with the map of the test.
ScoreIsAdjacencySumWitness ==
  /\ scored # NoScore
  /\ scored.modules = 1
  /\ scored.grid = TestGrid
  /\ scored.score = 655

\* The weight the module of a slot takes from the slot at (row, col) when
\* only a neighbour holding a module of the map adds a weight.
RecognizedWeightFrom(grid, modules, module, row, col) ==
  IF row < 0 \/ row >= grid.rows \/ col < 0 \/ col >= grid.cols THEN 0
  ELSE IF grid.slots[row * grid.cols + col + 1].moduleId \notin DOMAIN modules THEN 0
  ELSE WeightFrom(grid, module, row, col)

\* Twice the contribution of the slot at (row, col) under that reading.
RecognizedContribution2(grid, modules, row, col) ==
  IF grid.slots[row * grid.cols + col + 1].moduleId \notin DOMAIN modules THEN 0
  ELSE LET module == modules[grid.slots[row * grid.cols + col + 1].moduleId]
       IN  (module.baseValue
              + RecognizedWeightFrom(grid, modules, module, row - 1, col)
              + RecognizedWeightFrom(grid, modules, module, row + 1, col)
              + RecognizedWeightFrom(grid, modules, module, row, col - 1)
              + RecognizedWeightFrom(grid, modules, module, row, col + 1))
           * (IF grid.slots[row * grid.cols + col + 1].supercharged THEN module.mult2 ELSE 2)

RecognizedTotal2(grid, modules) ==
  SumTo([r \in 0..(grid.rows - 1) |->
           SumTo([c \in 0..(grid.cols - 1) |->
                    RecognizedContribution2(grid, modules, r, c)], grid.cols)],
        grid.rows)

(***************************************************************************)
(* C16: a neighbouring slot adds an adjacency weight only when its module  *)
(* id is in the module map, and a slot whose own module id is not in the   *)
(* map contributes nothing: the score is the rounded sum in which the      *)
(* neighbours outside the map add no weight.                               *)
(***************************************************************************)
OnlyRecognizedNeighboursCount ==
  scored # NoScore =>
    /\ 2 * scored.score - 1 <= RecognizedTotal2(scored.grid, ModuleMaps[scored.modules])
    /\ RecognizedTotal2(scored.grid, ModuleMaps[scored.modules]) <= 2 * scored.score

\* The part about the slot's own module id: a grid holding only ids that
\* are not in the map scores 0.
UnknownOwnIdScoresZero ==
  (scored # NoScore
     /\ \A k \in 1..Len(scored.grid.slots) :
          scored.grid.slots[k].moduleId \notin DOMAIN ModuleMaps[scored.modules])
    => scored.score = 0

\* slots.length = rows * cols
SlotCountMatches(grid) == Len(grid.slots) = grid.rows * grid.cols

(***************************************************************************)
(* C17: every grid of the store, and every grid suggestBestArrangement     *)
(* returns, has slots.length = rows * cols.                                *)
(***************************************************************************)
SlotCountIsRowsTimesCols ==
  /\ SlotCountMatches(planner.grid)
  /\ pc = "done" => SlotCountMatches(ret.grid)

\* The same for the grids whose rows and cols are not negative.
SlotCountForNaturalSizes ==
  /\ (planner.grid.rows >= 0 /\ planner.grid.cols >= 0) => SlotCountMatches(planner.grid)
  /\ (pc = "done" /\ ret.grid.rows >= 0 /\ ret.grid.cols >= 0) => SlotCountMatches(ret.grid)

\* setPlannerGridSize keeps the content of the slots whose index is in both
\* grids and fills the new indexes with empty tech slots.
ResizeKeepsContent ==
  [][\A d \in GridDims \cup TypedSizes :
       (pc = "idle" /\ planner'.grid = resizePlannerGrid(planner.grid, d[1], d[2])
          /\ planner'.grid.rows # planner.grid.rows)
       => \A k \in 1..Len(planner'.grid.slots) :
            IF k <= Len(planner.grid.slots)
              THEN /\ planner'.grid.slots[k].type = planner.grid.slots[k].type
                   /\ planner'.grid.slots[k].supercharged = planner.grid.slots[k].supercharged
                   /\ planner'.grid.slots[k].moduleId = planner.grid.slots[k].moduleId
              ELSE planner'.grid.slots[k] = EmptySlot(k - 1)]_vars

\* The greedy seed of the call in progress: planner is not written before
\* the call has returned.
SeedGrid == greedyPlacement(planner.grid, CurrentModules(planner.grid) \o planner.benchModules)

(***************************************************************************)
(* C18: during the hill-climb the best score never decreases; the best     *)
(* grid is replaced only by a swapped candidate whose score is strictly    *)
(* greater and is otherwise unchanged; bestScore is the score of bestGrid, *)
(* the returned grid is the final best grid, and its score is >= the score *)
(* of the greedy seed.                                                     *)
(***************************************************************************)
HillClimbMonotone ==
  /\ [](pc \in {"loop", "done"} =>
          /\ bestScore = scorePlannerGrid(bestGrid, ModuleMap)
          /\ bestScore >= scorePlannerGrid(SeedGrid, ModuleMap))
  /\ [](pc = "done" =>
          /\ ret.grid = bestGrid
          /\ scorePlannerGrid(ret.grid, ModuleMap) = bestScore)
  /\ [][(pc = "loop" /\ pc' = "loop") =>
          /\ bestScore' >= bestScore
          /\ bestGrid' # bestGrid =>
               /\ bestScore' > bestScore
               /\ \E a, b \in 1..Len(bestGrid.slots) : bestGrid' = SwapModules(bestGrid, a, b)
          /\ bestGrid' = bestGrid => bestScore' = bestScore]_vars

\* A call returned a grid that a swap had made better than the seed.
HillClimbMonotoneWitness ==
  /\ pc = "done"
  /\ i >= 1
  /\ bestScore > scorePlannerGrid(SeedGrid, ModuleMap)
  /\ ret.grid # SeedGrid

\* The pool of the call in progress: the placed modules in slot order, then
\* the bench.
Pool == CurrentModules(planner.grid) \o planner.benchModules

\* Twice baseValue * superchargeMultiplier, 0 for an id outside the map.
Value2(id) == IF id \in DOMAIN ModuleMap THEN ModuleMap[id].baseValue * ModuleMap[id].mult2 ELSE 0

\* The place of slot k when supercharged slots come first and the original
\* index decides otherwise.
SlotRank(grid, k) ==
  1 + Cardinality({ j \in 1..Len(grid.slots) :
                      \/ grid.slots[j].supercharged /\ ~grid.slots[k].supercharged
                      \/ grid.slots[j].supercharged = grid.slots[k].supercharged /\ j < k })

\* The place of the p-th module of pool when higher values come first and
\* the pool order decides between equal values.
ModuleRank(pool, p) ==
  1 + Cardinality({ q \in 1..Len(pool) :
                      \/ Value2(pool[q]) > Value2(pool[p])
                      \/ Value2(pool[q]) = Value2(pool[p]) /\ q < p })

\* The module of the given place, none past the end of the pool.
ModuleOfRank(pool, r) ==
  IF r > Len(pool) THEN NoModule
  ELSE pool[CHOOSE p \in 1..Len(pool) : ModuleRank(pool, p) = r]

(***************************************************************************)
(* C19: with iterations = 0 the returned grid is the greedy seed: the slot *)
(* of place k (supercharged first, then by index) holds the module of      *)
(* place k (descending baseValue * superchargeMultiplier) and nothing      *)
(* else is placed; no plain slot holds a module while a supercharged slot  *)
(* is empty, and the first supercharged slot holds a module of the highest *)
(* value.                                                                  *)
(***************************************************************************)
ZeroIterationsIsGreedySeed ==
  (pc = "done" /\ iterations = 0) =>
    /\ ret.grid.rows = planner.grid.rows /\ ret.grid.cols = planner.grid.cols
    /\ Len(ret.grid.slots) = Len(planner.grid.slots)
    /\ \A k \in 1..Len(ret.grid.slots) :
         /\ ret.grid.slots[k].supercharged = planner.grid.slots[k].supercharged
         /\ ret.grid.slots[k].moduleId = ModuleOfRank(Pool, SlotRank(planner.grid, k))
    /\ \A j, k \in 1..Len(ret.grid.slots) :
         ~ /\ ret.grid.slots[j].supercharged /\ ret.grid.slots[j].moduleId = NoModule
           /\ ~ret.grid.slots[k].supercharged /\ ret.grid.slots[k].moduleId # NoModule
    /\ \A k \in 1..Len(ret.grid.slots) :
         (/\ Pool # <<>>
          /\ ret.grid.slots[k].supercharged
          /\ \A j \in 1..(k - 1) : ~ret.grid.slots[j].supercharged)
         => \A p \in 1..Len(Pool) : Value2(ret.grid.slots[k].moduleId) >= Value2(Pool[p])

\* A call with iterations = 0 on a grid whose supercharged slot is not the
\* first slot, with modules of different values, one of which sat in a slot
\* that the seed leaves empty.
ZeroIterationsIsGreedySeedWitness ==
  /\ pc = "done"
  /\ iterations = 0
  /\ \E p, q \in 1..Len(Pool) : Value2(Pool[p]) > Value2(Pool[q])
  /\ \E k \in 2..Len(ret.grid.slots) :
       ret.grid.slots[k].supercharged /\ ret.grid.slots[k].moduleId # NoModule
  /\ \E k \in 1..Len(ret.grid.slots) :
       planner.grid.slots[k].moduleId # NoModule /\ ret.grid.slots[k].moduleId = NoModule

\* The 1-based positions of the slots of grid that hold a module, as a set.
Occupied(grid) == { k \in 1..Len(grid.slots) : grid.slots[k].moduleId # NoModule }

\* How many times id occurs in seq.
Count(seq, id) == Cardinality({ k \in 1..Len(seq) : seq[k] = id })

\* The smaller of two numbers.

(***************************************************************************)
(* C20: for every iterations value the returned grid occupies the slots    *)
(* the greedy seed occupies, min(pool size, rows * cols) of them, and when *)
(* the pool is larger than the grid every module that did not get a slot   *)
(* is in benchModules of the result.                                       *)
(***************************************************************************)
OccupiedKeptExcessBenched ==
  pc = "done" =>
    /\ Occupied(ret.grid) = Occupied(SeedGrid)
    /\ Cardinality(Occupied(ret.grid)) = Min(Len(Pool), planner.grid.rows * planner.grid.cols)
    /\ Len(Pool) > planner.grid.rows * planner.grid.cols =>
         \A id \in Range(Pool) :
           Count(ret.benchModules, id) >= Count(Pool, id) - Count(CurrentModules(ret.grid), id)

\* The part about the slots: the occupied set is the seed's at every step
\* of the hill-climb and in the result.
OccupiedSetKept ==
  /\ pc \in {"loop", "done"} =>
       /\ Occupied(bestGrid) = Occupied(SeedGrid)
       /\ Cardinality(Occupied(bestGrid)) = Min(Len(Pool), planner.grid.rows * planner.grid.cols)
  /\ pc = "done" => Occupied(ret.grid) = Occupied(SeedGrid)

(***************************************************************************)
(* C21: suggestBestArrangement terminates: every call that has begun       *)
(* returns; the loop body runs at most iterations times and not at all     *)
(* when fewer than 2 slots hold a module; the redraw of secondIdx happens  *)
(* only when at least 2 slots hold a module.                               *)
(***************************************************************************)
SuggestTerminates ==
  /\ [](i <= iterations)
  /\ [](Len(moduleSlots) < 2 => i = 0 /\ pc # "drawn")
  /\ (pc = "loop") ~> (pc = "done")
  /\ (pc = "drawn") ~> (pc = "done")

\* The second iteration of a call is in its redraw loop.
SuggestTerminatesWitness ==
  /\ pc = "drawn"
  /\ i = 1
  /\ drawn.secondIdx = drawn.firstIdx

(***************************************************************************)
(* C22: scorePlannerGrid and suggestBestArrangement do not modify their    *)
(* arguments: during and after a call the PlannerState passed in has the   *)
(* slots and the benchModules it had when the call was made, and the       *)
(* state returned has the same platform, rows and cols and per slot the    *)
(* same id, type and supercharged flag.                                    *)
(***************************************************************************)
ArgumentsUnchanged ==
  /\ run.pc \in {"scored", "loop", "done"} => StateValue(heap, arg) = snapshot
  /\ run.pc = "done" =>
       LET result == StateValue(heap, run.result)
       IN  /\ result.platform = snapshot.platform
           /\ result.grid.rows = snapshot.grid.rows
           /\ result.grid.cols = snapshot.grid.cols
           /\ Len(result.grid.slots) = Len(snapshot.grid.slots)
           /\ \A k \in 1..Len(result.grid.slots) :
                /\ result.grid.slots[k].id = snapshot.grid.slots[k].id
                /\ result.grid.slots[k].type = snapshot.grid.slots[k].type
                /\ result.grid.slots[k].supercharged = snapshot.grid.slots[k].supercharged

\* A call has returned a grid that differs from the one passed in after a
\* swap was adopted, with a module left for the bench.
ArgumentsUnchangedWitness ==
  /\ run.pc = "done"
  /\ run.i >= 1
  /\ StateValue(heap, run.result).grid # snapshot.grid
  /\ run.bestScore > scorePlannerGrid(greedyPlacement(snapshot.grid, run.modulesToPlace), ModuleMap)
  /\ snapshot.benchModules # <<>>

(***************************************************************************)
(* C23: a recipe application of run count runs expands each input of its   *)
(* recipe with desired quantity input.qty * runs, one child per input in   *)
(* the order of the inputs, and the inputs list of each step carries the   *)
(* same quantities, one entry per recipe input.                            *)
(***************************************************************************)
InputsScaledByRuns ==
  /\ last.op = "plan" /\ last.outcome.kind = "ok" =>
        \A k \in 1..Len(last.outcome.result.steps) :
          LET step == last.outcome.result.steps[k]
          IN  /\ Len(step.inputs) = Len(Recipes[step.recipe].inputs)
              /\ \A j \in 1..Len(step.inputs) :
                   /\ step.inputs[j].itemId = Recipes[step.recipe].inputs[j].item
                   /\ step.inputs[j].qty = Recipes[step.recipe].inputs[j].qty * step.runs
  /\ LastPlanned =>
        \A n \in RecipeNodes(LastRoot) :
          /\ Len(n.children) = Len(Recipes[n.recipe].inputs)
          /\ \A j \in 1..Len(n.children) :
               /\ n.children[j].itemId = Recipes[n.recipe].inputs[j].item
               /\ n.children[j].desiredQty = Recipes[n.recipe].inputs[j].qty * n.runs
               /\ n.children[j].depth = n.depth + 1

\* A computed plan in which a recipe whose run count differs from the
\* quantity desired of it has an input that another recipe produces.
InputsScaledByRunsWitness ==
  /\ LastPlanned
  /\ ~last.hit
  /\ \E n \in RecipeNodes(LastRoot) :
       /\ n.runs # n.desiredQty
       /\ \E j \in 1..Len(n.children) :
            /\ n.children[j].recipe # NoRecipe
            /\ Recipes[n.recipe].inputs[j].qty * n.runs # Recipes[n.recipe].inputs[j].qty * n.desiredQty
  /\ \E n \in RecipeNodes(LastRoot) : n.runs >= 2

\* The number of recipe applications in a tree.
RECURSIVE Applications(_)
Applications(node) ==
  (IF node.recipe # NoRecipe THEN 1 ELSE 0)
    + SumSeq([k \in 1..Len(node.children) |-> Applications(node.children[k])])

\* steps is in ascending depth and, within a depth, ascending recipe id.
StepsOrdered(steps) ==
  \A k \in 1..Len(steps), l \in 1..Len(steps) :
    k < l =>
      \/ steps[k].depth < steps[l].depth
      \/ /\ steps[k].depth = steps[l].depth
         /\ localeCompare(Recipes[steps[k].recipe].id, Recipes[steps[l].recipe].id) <= 0

\* What a step says apart from the identity of its recipe object and the
\* order of its inputs.
StepSummary(step) ==
  [id |-> Recipes[step.recipe].id, depth |-> step.depth, runs |-> step.runs,
   timeSeconds |-> step.timeSeconds, outputQty |-> step.outputQty]

\* The recipe list with recipe 5 replaced by the recipe whose inputs are
\* listed in the other order.
InputsReordered(list) == [k \in 1..Len(list) |-> IF list[k] = 5 THEN 9 ELSE list[k]]

\* The plan of the last call's arguments over the index of the reordered
\* recipe list.
ReorderedPlan ==
  PlanWith(last.target, last.config.mode,
           buildCanonicalIndex(InputsReordered(Catalogs[last.config.index])),
           CategoryMaps[last.config.categories], EffectiveMaxDepth(last.config))

(***************************************************************************)
(* C24: the steps of a plan hold one entry per recipe application of the   *)
(* tree, in ascending depth and within a depth ascending recipe id, and    *)
(* the order is the same when the inputs of a recipe are listed in another *)
(* order.                                                                  *)
(***************************************************************************)
StepsPerApplicationInFixedOrder ==
  /\ last.op = "plan" /\ last.outcome.kind = "ok" => StepsOrdered(last.outcome.result.steps)
  /\ LastPlanned =>
        /\ Len(Fresh(last.target, last.config).result.steps) = Applications(LastRoot)
        /\ StepsOrdered(Fresh(last.target, last.config).result.steps)
  /\ (LastPlanned /\ last.target.recipeId = NoRecipeId /\ ReorderedPlan.kind = "ok") =>
        [k \in 1..Len(ReorderedPlan.result.steps) |-> StepSummary(ReorderedPlan.result.steps[k])]
          = [k \in 1..Len(Fresh(last.target, last.config).result.steps) |->
               StepSummary(Fresh(last.target, last.config).result.steps[k])]

\* The part about the entries and the sort keys: one entry per recipe
\* application, ascending depth, then ascending recipe id.
StepsPerApplicationSorted ==
  /\ last.op = "plan" /\ last.outcome.kind = "ok" => StepsOrdered(last.outcome.result.steps)
  /\ LastPlanned =>
        /\ Len(Fresh(last.target, last.config).result.steps) = Applications(LastRoot)
        /\ StepsOrdered(Fresh(last.target, last.config).result.steps)

(***************************************************************************)
(* C25: for every returned plan totalTimeSeconds is the sum of timeSeconds *)
(* over its steps, targetQty is the requested target.quantity and          *)
(* outputQty is the outputQty of the root step.                            *)
(***************************************************************************)
TotalsMirrorSteps ==
  (last.op = "plan" /\ last.outcome.kind = "ok") =>
    LET result == last.outcome.result
        roots == { k \in 1..Len(result.steps) : result.steps[k].depth = 0 }
    IN  /\ result.totalTimeSeconds = SumTo([k \in 0..(Len(result.steps) - 1) |->
                                              result.steps[k + 1].timeSeconds], Len(result.steps))
        /\ result.targetQty = last.target.quantity
        /\ roots = {1}
        /\ result.outputQty = result.steps[1].outputQty
        /\ Recipes[result.steps[1].recipe].output = last.target.itemId

\* A returned plan of several steps with different times whose output
\* exceeds the quantity requested.
TotalsMirrorStepsWitness ==
  /\ last.op = "plan"
  /\ last.outcome.kind = "ok"
  /\ Len(last.outcome.result.steps) >= 3
  /\ last.outcome.result.steps[2].timeSeconds # last.outcome.result.steps[1].timeSeconds
  /\ last.outcome.result.outputQty > last.outcome.result.targetQty

\* The patch submitted is malformed: a quantity or time typed that is not a
\* number, inputs that are not an array, or an entry without an item id or
\* without a numeric qty.
MalformedPatch ==
  \/ "quantity" \in admin.submitted.typed /\ admin.submitted.typedQuantity # "3"
  \/ "time" \in admin.submitted.typed /\ admin.submitted.typedTime # "3"
  \/ ApplyError(ParsedInputs(admin.submitted, admin.before)) # NoError

(***************************************************************************)
(* C26: a malformed admin patch is rejected with an error before           *)
(* applyCanonicalRecipePatch is called, and the recipe keeps all its       *)
(* fields.                                                                 *)
(***************************************************************************)
MalformedPatchRejected ==
  (admin.applied /\ MalformedPatch) =>
    /\ admin.adminError # NoError
    /\ admin.recipe = admin.before

\* The part about the inputs: a text that does not parse, is no array or
\* has an entry without item id or numeric qty is rejected with an error
\* and the recipe is as before.
MalformedInputsRejected ==
  (admin.applied /\ ApplyError(ParsedInputs(admin.submitted, admin.before)) # NoError) =>
    /\ admin.adminError # NoError
    /\ admin.recipe = admin.before

\* The items a step of a returned chain may use: the items in the filled
\* slots and the outputs of the steps before it.
AvailableAt(chain, j) ==
  baseItems(chains.inputs) \cup {RefinerRecipes[chain.steps[k]].output.item : k \in 1..(j - 1)}

ChainsAsDocumented ==
  chains.pc = "done" =>
    /\ Len(chains.ret) <= chains.maxSuggestions
    /\ \A k \in 1..(Len(chains.ret) - 1) :
         chains.ret[k].valuePerHour >= chains.ret[k + 1].valuePerHour
    /\ \A k \in DOMAIN chains.ret :
         /\ Len(chains.ret[k].steps) \in 1..chains.maxDepth
         /\ \A j \in DOMAIN chains.ret[k].steps :
              \A n \in DOMAIN RefinerRecipes[chains.ret[k].steps[j]].inputs :
                RefinerRecipes[chains.ret[k].steps[j]].inputs[n].item
                  \in AvailableAt(chains.ret[k], j)

(***************************************************************************)
(* C27: suggestRefinerChains terminates and returns at most                *)
(* maxSuggestions chains in descending order of valuePerHour; each chain   *)
(* has between 1 and maxDepth steps, and the inputs of each step are all   *)
(* among the items in the filled slots or the outputs of earlier steps of  *)
(* the same chain.                                                         *)
(***************************************************************************)
SuggestChainsTerminatesWithChains ==
  /\ [](ChainsAsDocumented)
  /\ (chains.pc = "loop") ~> (chains.pc = "done")

\* A call that found more chains than it may return, and returned one of
\* three steps whose later steps use the outputs of the earlier ones.
SuggestChainsWitness ==
  /\ chains.pc = "done"
  /\ chains.found > chains.maxSuggestions
  /\ Len(chains.ret) >= 2
  /\ \E k \in DOMAIN chains.ret :
       /\ Len(chains.ret[k].steps) = 3
       /\ \E j \in 2..3 :
            \E n \in DOMAIN RefinerRecipes[chains.ret[k].steps[j]].inputs :
              RefinerRecipes[chains.ret[k].steps[j]].inputs[n].item \notin baseItems(chains.inputs)

\* The quantity of the nodes of the tree that no recipe produces.
RECURSIVE UnmadeQty(_)
UnmadeQty(node) ==
  (IF node.recipe = NoRecipe THEN node.actualQty ELSE 0)
    + SumSeq([k \in 1..Len(node.children) |-> UnmadeQty(node.children[k])])

\* The item ids of the nodes of the tree that no recipe produces.
UnmadeItems(root) == { p.node.itemId : p \in { x \in Paths(root, {}) : x.node.recipe = NoRecipe } }

(***************************************************************************)
(* C28: every node of the plan tree is counted in exactly one of steps     *)
(* and baseMaterials: steps has one entry for each node a recipe produces, *)
(* and baseMaterials counts the other nodes only, also when a recipe has   *)
(* an empty inputs list.                                                   *)
(***************************************************************************)
NodesCountedOnce ==
  LastPlanned /\ ~last.hit =>
    /\ Len(last.outcome.result.steps) = Applications(LastRoot)
    /\ SumSeq([k \in 1..Len(last.outcome.result.baseMaterials) |->
                 last.outcome.result.baseMaterials[k].qty]) = UnmadeQty(LastRoot)
    /\ \A k \in 1..Len(last.outcome.result.baseMaterials) :
         last.outcome.result.baseMaterials[k].itemId \in UnmadeItems(LastRoot)

\* The same for the plans in which every recipe applied has inputs.
NodesCountedOnceWithInputs ==
  (LastPlanned /\ ~last.hit
     /\ \A n \in RecipeNodes(LastRoot) : Recipes[n.recipe].inputs # <<>>) =>
    /\ Len(last.outcome.result.steps) = Applications(LastRoot)
    /\ SumSeq([k \in 1..Len(last.outcome.result.baseMaterials) |->
                 last.outcome.result.baseMaterials[k].qty]) = UnmadeQty(LastRoot)
    /\ \A k \in 1..Len(last.outcome.result.baseMaterials) :
         last.outcome.result.baseMaterials[k].itemId \in UnmadeItems(LastRoot)

(***************************************************************************)
(* C29: a planRefiner call that throws (MissingCanonicalRecipeError, or    *)
(* the error for a pinned recipeId that is not among the candidates)       *)
(* leaves the plan cache as it was: no entry added, removed or changed,    *)
(* so every call after it is served the entry, or computes afresh, as it   *)
(* would have without the failing call.                                    *)
(***************************************************************************)
FailedCallKeepsCache ==
  [][(last'.op = "plan" /\ last'.outcome.kind # "ok") =>
       /\ cache' = cache
       /\ \A target \in FailTargets, config \in FailConfigs :
            /\ CacheHit(CacheKey(target, config))' = CacheHit(CacheKey(target, config))
            /\ CacheHit(CacheKey(target, config)) =>
                 cache'[CacheKey(target, config)] = cache[CacheKey(target, config)]]_vars

\* A call failed for an unknown pinned recipe while the cache held a plan
\* that a later call is served from.
FailedCallKeepsCacheWitness ==
  /\ last.op = "plan"
  /\ last.outcome.kind = "Error"
  /\ \E target \in FailTargets, config \in FailConfigs : CacheHit(CacheKey(target, config))

\* hydrate has completed and no save is pending.
Settled == persist.pc = "hydrated" /\ persist.requests = <<>>

HydrateAgreesWhenNothingSaved ==
  (\A k \in DOMAIN persist.loaded : persist.acted[k] # NoValue => persist.loaded[k] = NoValue) =>
    /\ Settled =>
         \A k \in PersistKeys :
           persist.storage[k] # NoValue => persist.memory[k] = persist.storage[k]
    /\ persist.ready =>
         \A k \in PersistKeys :
           persist.acted[k] # NoValue => persist.memory[k] >= persist.acted[k]

====
